---- MODULE Spec2Model ----
(***************************************************************************)
(* Model of the turn-processing core of the vehicle-sales assistant:       *)
(*   - LocalStorageAdapter  (src/src/adapters/storage/local_adapter.py)    *)
(*   - ConversationContext  (src/src/core/models.py)                       *)
(*   - ConversationService  (src/src/agent/services/conversation.py)       *)
(*   - MessageProcessorService.process (src/src/services/message_processor.py) *)
(*   - route_decision and the handlers (src/src/agent/router.py,           *)
(*     src/src/agent/handlers/catalog.py)                                  *)
(*   - the catalog queries (src/src/tools/catalog/inventory.py)            *)
(*                                                                         *)
(* Contexts are Python objects shared by reference between the store and   *)
(* the turns that hold them, so the model keeps a heap of context records  *)
(* and the store maps a session id to a heap address.  Every store method  *)
(* runs under the adapter's Lock and is one atomic step; the mutations a   *)
(* turn applies to the context it holds happen outside that lock and are   *)
(* separate steps.  Time is the value of datetime.now() in minutes.        *)
(***************************************************************************)
EXTENDS Integers, Sequences, FiniteSets, TLC

\* ---------------------------------------------------------------- bounds
MaxTime == 2
MaxTTLInput == 1
MaxTurns == 2
MaxCtx == 2
MaxClientMessages == 1
MaxAppends == 22
MaxAssistantAppends == 2

\* ------------------------------------------------------ program constants
MAX_MESSAGES == 20

Sessions == {"s1", "s2"}
Turns == 1..MaxTurns
CtxIds == 1..MaxCtx
StockIds == {1, 2}
TTLInputs == (0 - 1)..MaxTTLInput
NoCtx == 0
NoVehicle == 0
NoSession == "-"

VARIABLES
    ttl_minutes,  \* the argument LocalStorageAdapter.__init__ was called with
    adapter,      \* "ready" when __init__ returned, "failed" when it raised
    ttl,          \* LocalStorageAdapter._ttl_minutes
    now,          \* datetime.now()
    store,        \* LocalStorageAdapter._store : session id -> context address
    heap,         \* the ConversationContext objects, by address
    nctx,         \* number of ConversationContext objects constructed
    pc,           \* position of each turn in MessageProcessorService.process
    session_id,   \* process(): session_id argument of each turn
    ctx,          \* process(): the ctx local of each turn
    reply,        \* process(): the reply local of each turn
    lastOp,       \* the last store method called and what it returned
    removed,      \* history: contexts that were deleted, cleared or evicted
    wiped,        \* history: turns whose session was removed after they started
    elapsed,      \* history: contexts whose age has exceeded the TTL at some time
    appended,     \* history: every message appended to each context, in order
    user_text,    \* process(): the user_text argument
    decision,     \* process(): the AgentDecision the reasoning backend returned
    guarded,      \* process(): what _apply_clarify_guards returned
    catalog,      \* the rows _load_catalog_data() returns; <<>> when the load raises
    kavak_info,   \* what _load_kavak_info() returns; None when it raises
    result,       \* process(): what route_decision returned or raised
    calls,        \* history: the handlers and backend methods invoked, in order
    humanize,     \* process(): the humanize argument
    steps,        \* history: the steps of process() that have run, in order
    returned,     \* what process() returned to its caller
    log,          \* the records written with logger.error / logger.exception
    loop,         \* the asyncio event loop process() runs on
    csv_file,     \* the version of the catalog file the FileStorage holds, by name
    lru_cache     \* the cache of _load_catalog_data: what it returned, once it has

ioVars == <<csv_file, lru_cache>>

vars == <<ttl_minutes, adapter, ttl, now, store, heap, nctx, pc, session_id, ctx, reply,
          lastOp, removed, wiped, elapsed, appended,
          user_text, decision, guarded, catalog, kavak_info, ioVars, result, calls,
          humanize, steps, returned, log, loop>>

runVars == <<humanize, steps, returned, log, loop>>
decisionVars == <<user_text, decision, guarded, catalog, kavak_info, ioVars, result, calls, runVars>>
turnVars == <<pc, session_id, ctx, reply, decisionVars>>
ghostVars == <<removed, wiped, elapsed, appended>>

\* ------------------------------------------------------------ core models

\* Message(role, content) with timestamp = datetime.now()
Message(role, content) == [role |-> role, content |-> content, timestamp |-> now]

\* ConversationContext(session_id=sid): the dataclass defaults
ConversationContext(sid) ==
    [session_id |-> sid,
     messages |-> <<>>,
     selected_vehicle |-> NoVehicle,
     last_search_results |-> <<>>,
     last_action |-> "none",
     created_at |-> now,
     updated_at |-> now]

\* the content of a heap cell that holds no object yet
Unallocated ==
    [session_id |-> NoSession,
     messages |-> <<>>,
     selected_vehicle |-> NoVehicle,
     last_search_results |-> <<>>,
     last_action |-> "none",
     created_at |-> 0,
     updated_at |-> 0]

\* messages[-MAX_MESSAGES:]
LastN(s, n) == IF Len(s) <= n THEN s ELSE SubSeq(s, Len(s) - n + 1, Len(s))

\* add_message keeping the oldest MAX_MESSAGES messages (messages[:MAX_MESSAGES])
add_message_keeps_oldest(c, role, content) ==
    LET grown == Append(c.messages, Message(role, content))
        kept == IF Len(grown) > MAX_MESSAGES THEN SubSeq(grown, 1, MAX_MESSAGES) ELSE grown
    IN [c EXCEPT !.messages = kept, !.updated_at = now]

\* ConversationContext.add_message
add_message(c, role, content) ==
    LET grown == Append(c.messages, Message(role, content))
        kept == IF Len(grown) > MAX_MESSAGES THEN LastN(grown, MAX_MESSAGES) ELSE grown
    IN [c EXCEPT !.messages = kept, !.updated_at = now]

add_user_message(c, content) == add_message(c, "user", content)

add_assistant_message(c, content) == add_message(c, "assistant", content)

\* set_search_results without the refresh of updated_at
set_search_results_no_refresh(c, vehicles) ==
    [c EXCEPT !.last_search_results = vehicles]

\* ConversationContext.set_search_results
set_search_results(c, vehicles) ==
    [c EXCEPT !.last_search_results = vehicles, !.updated_at = now]

\* ConversationContext.select_vehicle_by_stock_id: [found, c]
select_vehicle_by_stock_id(c, stock_id) ==
    IF \E i \in 1..Len(c.last_search_results) : c.last_search_results[i] = stock_id
    THEN [found |-> TRUE,
          c |-> [c EXCEPT !.selected_vehicle = stock_id, !.updated_at = now]]
    ELSE [found |-> FALSE, c |-> c]

\* ------------------------------------------------------ LocalStorageAdapter

\* __init__ rejecting only a negative ttl_minutes
LocalStorageAdapter_accepts_zero(minutes) ==
    IF minutes < 0
    THEN [adapter |-> "failed", ttl |-> 0]
    ELSE [adapter |-> "ready", ttl |-> minutes]

\* LocalStorageAdapter.__init__: raises ValueError when ttl_minutes <= 0
LocalStorageAdapter(minutes) ==
    IF minutes <= 0
    THEN [adapter |-> "failed", ttl |-> 0]
    ELSE [adapter |-> "ready", ttl |-> minutes]

\* _is_expired with >= in place of >
is_expired_at_ttl(context) == now - context.updated_at >= ttl

\* LocalStorageAdapter._is_expired
is_expired(context) == now - context.updated_at > ttl

\* the adapter's data together with the objects it refers to
Self == [m |-> store, h |-> heap, n |-> nctx]

\* get returning None for an expired entry without deleting it
get_keeps_expired(S, sid) ==
    IF S.m[sid] = NoCtx
    THEN [S |-> S, ret |-> NoCtx]
    ELSE IF is_expired(S.h[S.m[sid]])
         THEN [S |-> S, ret |-> NoCtx]
         ELSE [S |-> S, ret |-> S.m[sid]]

\* LocalStorageAdapter.get
get(S, sid) ==
    IF S.m[sid] = NoCtx
    THEN [S |-> S, ret |-> NoCtx]
    ELSE IF is_expired(S.h[S.m[sid]])
         THEN [S |-> [S EXCEPT !.m[sid] = NoCtx], ret |-> NoCtx]
         ELSE [S |-> S, ret |-> S.m[sid]]

\* get_or_create without the look-up of the existing entry
get_or_create_always_new(S, sid) ==
    LET a == S.n + 1
    IN [S |-> [m |-> [S.m EXCEPT ![sid] = a],
               h |-> [S.h EXCEPT ![a] = ConversationContext(sid)],
               n |-> a],
        ret |-> a]

\* LocalStorageAdapter.get_or_create
get_or_create(S, sid) ==
    IF S.m[sid] /= NoCtx /\ ~is_expired(S.h[S.m[sid]])
    THEN [S |-> S, ret |-> S.m[sid]]
    ELSE LET a == S.n + 1
         IN [S |-> [m |-> [S.m EXCEPT ![sid] = a],
                    h |-> [S.h EXCEPT ![a] = ConversationContext(sid)],
                    n |-> a],
             ret |-> a]

\* save without the refresh of updated_at
save_no_refresh(S, a) ==
    [S EXCEPT !.m[S.h[a].session_id] = a]

\* LocalStorageAdapter.save
save(S, a) ==
    [S EXCEPT !.h[a].updated_at = now, !.m[S.h[a].session_id] = a]

\* delete removing the entry only when it has not expired
delete_live_only(S, sid) ==
    IF get(S, sid).ret /= NoCtx
    THEN [S |-> [S EXCEPT !.m[sid] = NoCtx], ret |-> TRUE]
    ELSE [S |-> S, ret |-> FALSE]

\* LocalStorageAdapter.delete
delete(S, sid) ==
    IF S.m[sid] /= NoCtx
    THEN [S |-> [S EXCEPT !.m[sid] = NoCtx], ret |-> TRUE]
    ELSE [S |-> S, ret |-> FALSE]

\* LocalStorageAdapter.exists
exists(S, sid) ==
    LET r == get(S, sid) IN [S |-> r.S, ret |-> r.ret /= NoCtx]

\* clear_all counting after the clear
clear_all_counts_after(S) ==
    [S |-> [S EXCEPT !.m = [s \in Sessions |-> NoCtx]],
     ret |-> 0]

\* LocalStorageAdapter.clear_all
clear_all(S) ==
    [S |-> [S EXCEPT !.m = [s \in Sessions |-> NoCtx]],
     ret |-> Cardinality({s \in Sessions : S.m[s] /= NoCtx})]

\* cleanup_expired removing the entries whose age has reached the TTL
cleanup_expired_inclusive(S) ==
    LET expired == {s \in Sessions : S.m[s] /= NoCtx /\ now - S.h[S.m[s]].updated_at >= ttl}
    IN [S |-> [S EXCEPT !.m = [s \in Sessions |-> IF s \in expired THEN NoCtx ELSE S.m[s]]],
        ret |-> Cardinality(expired)]

\* LocalStorageAdapter.cleanup_expired
cleanup_expired(S) ==
    LET expired == {s \in Sessions : S.m[s] /= NoCtx /\ is_expired(S.h[S.m[s]])}
    IN [S |-> [S EXCEPT !.m = [s \in Sessions |-> IF s \in expired THEN NoCtx ELSE S.m[s]]],
        ret |-> Cardinality(expired)]

\* LocalStorageAdapter.session_count
session_count == Cardinality({s \in Sessions : store[s] /= NoCtx})

\* ------------------------------------------------------------ bookkeeping

Op(op, sid, a, flag, count) ==
    [op |-> op, sid |-> sid, ctx |-> a, flag |-> flag, count |-> count, at |-> now]

\* the objects and the map become those of S
Becomes(S) == store' = S.m /\ heap' = S.h /\ nctx' = S.n

\* history of removals: the sessions whose entry S drops or supersedes
Dropped(S) == {s \in Sessions : store[s] /= NoCtx /\ S.m[s] /= store[s]}

Removes(S) ==
    /\ removed' = removed \cup {store[s] : s \in Dropped(S)}
    /\ wiped' = wiped \cup {t \in Turns : pc[t] /= "idle" /\ session_id[t] \in Dropped(S)}

\* ---------------------------------------------------------------- strings

\* A str is a tuple of one-character strings; None is a tuple that is no str.
None == <<"None">>

\* a fixed message of the source, kept whole
Literal(s) == <<s>>

\* the characters of the modelled strings, in code point order
Alphabet ==
    <<" ", "0", "1", "2", "3", "4", "5", "6", "7", "8", "9",
      "a", "b", "c", "d", "e", "f", "g", "h", "i", "j", "k", "l", "m",
      "n", "o", "p", "q", "r", "s", "t", "u", "v", "w", "x", "y", "z", "á">>

Capitals ==
    <<"A", "B", "C", "D", "E", "F", "G", "H", "I", "J", "K", "L", "M",
      "N", "O", "P", "Q", "R", "S", "T", "U", "V", "W", "X", "Y", "Z", "Á">>

Letters == 1..Len(Capitals)
FirstLetter == Len(Alphabet) - Len(Capitals)

IsCapital(ch) == \E i \in Letters : Capitals[i] = ch
IsSmall(ch) == \E i \in Letters : Alphabet[FirstLetter + i] = ch

lower_char(ch) ==
    IF IsCapital(ch) THEN Alphabet[FirstLetter + (CHOOSE i \in Letters : Capitals[i] = ch)] ELSE ch

upper_char(ch) ==
    IF IsSmall(ch) THEN Capitals[CHOOSE i \in Letters : Alphabet[FirstLetter + i] = ch] ELSE ch

\* lower() leaving the text as typed
lower_as_typed(s) == s

\* str.lower()
lower(s) == [i \in 1..Len(s) |-> lower_char(s[i])]

\* str.title(): a letter that follows no letter is capitalised, the others lowered
title(s) ==
    [i \in 1..Len(s) |->
        IF i = 1 \/ ~(IsCapital(s[i - 1]) \/ IsSmall(s[i - 1]))
        THEN upper_char(s[i])
        ELSE lower_char(s[i])]

\* str.strip()
RECURSIVE strip(_)
strip(s) ==
    IF s = <<>> THEN s
    ELSE IF Head(s) = " " THEN strip(Tail(s))
    ELSE IF s[Len(s)] = " " THEN strip(SubSeq(s, 1, Len(s) - 1))
    ELSE s

\* phrase in text
Contains(text, phrase) ==
    \E i \in 0..(Len(text) - Len(phrase)) : SubSeq(text, i + 1, i + Len(phrase)) = phrase

\* bool(value) of an optional str or list
Truthy(v) == v /= None /\ v /= <<>>

\* -------------------------------------------------------------- decisions

AgentAction ==
    {"search_cars", "get_car_details", "get_financing_options", "get_kavak_info",
     "respond", "clarify", "out_of_scope"}

MissingField == {"make", "model", "year", "price_max"}

NoInt == 0 - 1

\* AgentDecision(action=action): every other field at its default
AgentDecision(action) ==
    [action |-> action,
     make |-> None,
     model |-> None,
     year |-> NoInt,
     price_max |-> NoInt,
     stock_id |-> None,
     down_payment |-> NoInt,
     duration |-> NoInt,
     info_query |-> None,
     message |-> None,
     missing_information |-> None,
     reason |-> None]

\* no decision object yet
NoDecision == [action |-> "none"]

\* --------------------------------------------------------- clarify guards

\* the phrases of needs_reference
ReferencePhrases ==
    {<<"m", "a", "s", " ", "b", "a", "r", "a", "t", "o">>,
     <<"m", "á", "s", " ", "b", "a", "r", "a", "t", "o">>,
     <<"e", "l", " ", "p", "r", "i", "m", "e", "r", "o">>,
     <<"l", "a", " ", "p", "r", "i", "m", "e", "r", "a">>,
     <<"e", "l", " ", "r", "o", "j", "o">>,
     <<"l", "a", " ", "r", "o", "j", "a">>,
     <<"e", "s", "e">>,
     <<"e", "s", "e", " ", "a", "u", "t", "o">>,
     <<"e", "s", "e", " ", "c", "o", "c", "h", "e">>,
     <<"m", "e", " ", "i", "n", "t", "e", "r", "e", "s", "a", " ", "e", "l">>,
     <<"m", "e", " ", "i", "n", "t", "e", "r", "e", "s", "a", " ", "l", "a">>}

AskWhichToFinance ==
    Literal("¿Qué vehículo te interesa financiar? Puedes decirme la marca y el modelo.")

AskWhichListed ==
    Literal("¿Cuál de los vehículos encontrados quieres financiar? Indícame el número en la lista o dime marca y modelo.")

AskWhichReference ==
    Literal("¿Te refieres a algún vehículo de una búsqueda previa? Si no, dime qué marca, modelo o presupuesto tienes en mente.")

\* AgentDecision(action=CLARIFY, message=..., missing_information=...)
Clarify(message, missing) ==
    [AgentDecision("clarify") EXCEPT !.message = message, !.missing_information = missing]

needs_reference(text) == \E phrase \in ReferencePhrases : Contains(text, phrase)

has_context(c) == Len(c.last_search_results) > 0 \/ c.selected_vehicle /= NoVehicle

\* the guards without the first financing rule
apply_clarify_guards_no_rule1(text_in, d, c) ==
    LET text == lower(text_in)
        ret ==
            IF /\ d.action = "get_financing_options"
               /\ ~Truthy(d.stock_id)
               /\ Len(c.last_search_results) > 0
               /\ c.selected_vehicle = NoVehicle
            THEN Clarify(AskWhichListed, <<>>)
            ELSE IF needs_reference(text) /\ ~has_context(c)
            THEN Clarify(AskWhichReference, <<"make", "model">>)
            ELSE d
    IN [ret |-> ret, decision |-> d, ctx |-> c]

\* the guards without the second financing rule
apply_clarify_guards_no_rule2(text_in, d, c) ==
    LET text == lower(text_in)
        ret ==
            IF d.action = "get_financing_options" /\ ~Truthy(d.stock_id) /\ ~has_context(c)
            THEN Clarify(AskWhichToFinance, <<>>)
            ELSE IF needs_reference(text) /\ ~has_context(c)
            THEN Clarify(AskWhichReference, <<"make", "model">>)
            ELSE d
    IN [ret |-> ret, decision |-> d, ctx |-> c]

\* the guards with the financing rules testing the action only
apply_clarify_guards_any_stock_id(text_in, d, c) ==
    LET text == lower(text_in)
        ret ==
            IF d.action = "get_financing_options" /\ ~has_context(c)
            THEN Clarify(AskWhichToFinance, <<>>)
            ELSE IF /\ d.action = "get_financing_options"
                    /\ Len(c.last_search_results) > 0
                    /\ c.selected_vehicle = NoVehicle
            THEN Clarify(AskWhichListed, <<>>)
            ELSE IF needs_reference(text) /\ ~has_context(c)
            THEN Clarify(AskWhichReference, <<"make", "model">>)
            ELSE d
    IN [ret |-> ret, decision |-> d, ctx |-> c]

\* the guards with the reference rule testing the text only
apply_clarify_guards_any_context(text_in, d, c) ==
    LET text == lower(text_in)
        ret ==
            IF d.action = "get_financing_options" /\ ~Truthy(d.stock_id) /\ ~has_context(c)
            THEN Clarify(AskWhichToFinance, <<>>)
            ELSE IF /\ d.action = "get_financing_options"
                    /\ ~Truthy(d.stock_id)
                    /\ Len(c.last_search_results) > 0
                    /\ c.selected_vehicle = NoVehicle
            THEN Clarify(AskWhichListed, <<>>)
            ELSE IF needs_reference(text)
            THEN Clarify(AskWhichReference, <<"make", "model">>)
            ELSE d
    IN [ret |-> ret, decision |-> d, ctx |-> c]

\* the guards recording the override in the context they were given
apply_clarify_guards_marks_context(text_in, d, c) ==
    LET text == lower(text_in)
        ret ==
            IF d.action = "get_financing_options" /\ ~Truthy(d.stock_id) /\ ~has_context(c)
            THEN Clarify(AskWhichToFinance, <<>>)
            ELSE IF /\ d.action = "get_financing_options"
                    /\ ~Truthy(d.stock_id)
                    /\ Len(c.last_search_results) > 0
                    /\ c.selected_vehicle = NoVehicle
            THEN Clarify(AskWhichListed, <<>>)
            ELSE IF needs_reference(text) /\ ~has_context(c)
            THEN Clarify(AskWhichReference, <<"make", "model">>)
            ELSE d
    IN [ret |-> ret,
        decision |-> d,
        ctx |-> IF ret = d THEN c ELSE [c EXCEPT !.last_action = "clarify"]]

\* the guards with the marker rule tried before the two financing rules
apply_clarify_guards_marker_first(text_in, d, c) ==
    LET text == lower(text_in)
        ret ==
            IF needs_reference(text) /\ ~has_context(c)
            THEN Clarify(AskWhichReference, <<"make", "model">>)
            ELSE IF d.action = "get_financing_options" /\ ~Truthy(d.stock_id) /\ ~has_context(c)
            THEN Clarify(AskWhichToFinance, <<>>)
            ELSE IF /\ d.action = "get_financing_options"
                    /\ ~Truthy(d.stock_id)
                    /\ Len(c.last_search_results) > 0
                    /\ c.selected_vehicle = NoVehicle
            THEN Clarify(AskWhichListed, <<>>)
            ELSE d
    IN [ret |-> ret, decision |-> d, ctx |-> c]

\* MessageProcessorService._apply_clarify_guards(user_text, decision, ctx):
\* ret is the decision it returns; decision and ctx are the two argument
\* objects as the call leaves them
apply_clarify_guards(text_in, d, c) ==
    LET text == lower(text_in)
        ret ==
            IF d.action = "get_financing_options" /\ ~Truthy(d.stock_id) /\ ~has_context(c)
            THEN Clarify(AskWhichToFinance, <<>>)
            ELSE IF /\ d.action = "get_financing_options"
                    /\ ~Truthy(d.stock_id)
                    /\ Len(c.last_search_results) > 0
                    /\ c.selected_vehicle = NoVehicle
            THEN Clarify(AskWhichListed, <<>>)
            ELSE IF needs_reference(text) /\ ~has_context(c)
            THEN Clarify(AskWhichReference, <<"make", "model">>)
            ELSE d
    IN [ret |-> ret, decision |-> d, ctx |-> c]

\* ---------------------------------------------------------------- catalog

\* the characters in code point order (the order of str comparison)
CodePoints == SubSeq(Alphabet, 1, FirstLetter) \o SubSeq(Capitals, 1, Len(Capitals) - 1)
              \o SubSeq(Alphabet, FirstLetter + 1, Len(Alphabet) - 1)
              \o <<Capitals[Len(Capitals)], Alphabet[Len(Alphabet)]>>

ord(ch) == CHOOSE i \in 1..Len(CodePoints) : CodePoints[i] = ch

\* s < t for two str
RECURSIVE StrLess(_, _)
StrLess(s, t) ==
    IF t = <<>> THEN FALSE
    ELSE IF s = <<>> THEN TRUE
    ELSE IF Head(s) = Head(t) THEN StrLess(Tail(s), Tail(t))
    ELSE ord(Head(s)) < ord(Head(t))

\* sorted(S) for a set of str
RECURSIVE sorted(_)
sorted(S) ==
    IF S = {} THEN <<>>
    ELSE LET m == CHOOSE x \in S : \A y \in S : x = y \/ StrLess(x, y)
         IN <<m>> \o sorted(S \ {m})

\* ', '.join(list)
RECURSIVE join(_)
join(list) ==
    IF list = <<>> THEN <<>>
    ELSE IF Len(list) = 1 THEN Head(list)
    ELSE Head(list) \o <<",", " ">> \o join(Tail(list))

CurrentYear == 2026

\* a row of the loaded catalog: make and model stripped and lowercased
VehicleRow(stock_id, make, model, year, km, price) ==
    [stock_id |-> stock_id, make |-> make, model |-> model, year |-> year, km |-> km, price |-> price]

\* VehicleSearchResult built from a row: make and model title-cased
VehicleSearchResult(v) == [v EXCEPT !.make = title(v.make), !.model = title(v.model)]

Rows == {catalog[i] : i \in 1..Len(catalog)}

\* _load_catalog_data() raises CatalogNotFoundError or CatalogLoadError
LoadRaises == catalog = <<>>

\* get_available_makes()
get_available_makes == sorted({title(v.make) : v \in Rows})

\* get_available_models(make)
get_available_models(make) ==
    IF Truthy(make)
    THEN sorted({title(v.model) : v \in {w \in Rows : w.make = lower(strip(make))}})
    ELSE sorted({title(v.model) : v \in Rows})

\* get_makes_for_model stopping at the first row of the model
get_makes_for_model_first(model) ==
    IF ~Truthy(model) THEN [raised |-> FALSE, ret |-> <<>>]
    ELSE IF LoadRaises THEN [raised |-> TRUE, ret |-> <<>>]
    ELSE LET hits == {i \in 1..Len(catalog) : catalog[i].model = lower(strip(model))}
         IN [raised |-> FALSE,
             ret |-> IF hits = {} THEN <<>>
                     ELSE <<title(catalog[CHOOSE i \in hits : \A j \in hits : i <= j].make)>>]

\* get_makes_for_model(model); the load is not reached when model is falsy
get_makes_for_model(model) ==
    IF ~Truthy(model) THEN [raised |-> FALSE, ret |-> <<>>]
    ELSE IF LoadRaises THEN [raised |-> TRUE, ret |-> <<>>]
    ELSE [raised |-> FALSE,
          ret |-> sorted({title(v.make) : v \in {w \in Rows : w.model = lower(strip(model))}})]

\* VehicleSearchParams(...) raises ValidationError
InvalidSearchParameters(make, model, year, km, price) ==
    \/ make /= None /\ strip(make) = <<>>
    \/ model /= None /\ strip(model) = <<>>
    \/ year /= NoInt /\ (year < 1900 \/ year > CurrentYear)
    \/ km /= NoInt /\ km < 0
    \/ price /= NoInt /\ price < 0

\* the filters of search_vehicles with the price ceiling exclusive
Skipped_price_exclusive(v, make, model, year, km, price) ==
    \/ Truthy(make) /\ v.make /= lower(strip(make))
    \/ Truthy(model) /\ v.model /= lower(strip(model))
    \/ year /= NoInt /\ v.year /= year
    \/ km /= NoInt /\ v.km > km
    \/ price /= NoInt /\ v.price >= price

\* the filters of search_vehicles: the row is skipped (continue)
Skipped(v, make, model, year, km, price) ==
    \/ Truthy(make) /\ v.make /= lower(strip(make))
    \/ Truthy(model) /\ v.model /= lower(strip(model))
    \/ year /= NoInt /\ v.year /= year
    \/ km /= NoInt /\ v.km > km
    \/ price /= NoInt /\ v.price > price

\* the rows the filters keep, in load order
RECURSIVE Filtered(_, _, _, _, _, _)
Filtered(rows, make, model, year, km, price) ==
    IF rows = <<>> THEN <<>>
    ELSE (IF Skipped(Head(rows), make, model, year, km, price)
          THEN <<>> ELSE <<VehicleSearchResult(Head(rows))>>)
         \o Filtered(Tail(rows), make, model, year, km, price)

\* SearchResults(results=results, total_count=len(results))
SearchResults(found) == [raised |-> FALSE, results |-> found, total_count |-> Len(found)]

\* search_vehicles(make, model, year, km, price)
search_vehicles(make, model, year, km, price) ==
    IF InvalidSearchParameters(make, model, year, km, price) \/ LoadRaises
    THEN [raised |-> TRUE, results |-> <<>>, total_count |-> 0]
    ELSE SearchResults(Filtered(catalog, make, model, year, km, price))

IsDigit(ch) == ch \in {"0", "1", "2", "3", "4", "5", "6", "7", "8", "9"}

RECURSIVE DigitsValue(_)
DigitsValue(s) ==
    IF s = <<>> THEN 0
    ELSE 10 * DigitsValue(SubSeq(s, 1, Len(s) - 1)) + (ord(s[Len(s)]) - ord("0"))

\* int(stock_id) of a str made of the modelled characters
ParsesAsInt(s) == strip(s) /= <<>> /\ \A i \in 1..Len(strip(s)) : IsDigit(strip(s)[i])

\* get_vehicle_details comparing the row's integer with the str it was given
get_vehicle_details_never_found(stock_id) ==
    [raised |-> TRUE, car |-> NoDecision]

\* get_vehicle_details(stock_id)
get_vehicle_details(stock_id) ==
    IF ~ParsesAsInt(stock_id) \/ LoadRaises
    THEN [raised |-> TRUE, car |-> NoDecision]
    ELSE LET n == DigitsValue(strip(stock_id))
             hits == {i \in 1..Len(catalog) : catalog[i].stock_id = n}
         IN IF hits = {}
            THEN [raised |-> TRUE, car |-> NoDecision]
            ELSE [raised |-> FALSE,
                  car |-> VehicleSearchResult(catalog[CHOOSE i \in hits : \A j \in hits : i <= j])]

\* ------------------------------------------------- difflib close matches

\* the blocks a[i+1..i+k] = b[j+1..j+k], as <<i, j, k>>
MatchingBlocks(a, b) ==
    {m \in (0..Len(a)) \X (0..Len(b)) \X (0..Len(a)) :
        /\ m[1] + m[3] <= Len(a)
        /\ m[2] + m[3] <= Len(b)
        /\ \A d \in 1..m[3] : a[m[1] + d] = b[m[2] + d]}

\* the longest block, of those the one starting earliest in a, then earliest in b
Longest(blocks) ==
    CHOOSE m \in blocks :
        \A n \in blocks :
            \/ m[3] > n[3]
            \/ m[3] = n[3] /\ m[1] < n[1]
            \/ m[3] = n[3] /\ m[1] = n[1] /\ m[2] <= n[2]

\* SequenceMatcher.find_longest_match
find_longest_match(a, b) == Longest(MatchingBlocks(a, b))

RECURSIVE Matches(_, _)

\* the block m and the matches to its left and to its right
MatchesAround(a, b, m) ==
    IF m[3] = 0 THEN 0
    ELSE m[3]
         + Matches(SubSeq(a, 1, m[1]), SubSeq(b, 1, m[2]))
         + Matches(SubSeq(a, m[1] + m[3] + 1, Len(a)), SubSeq(b, m[2] + m[3] + 1, Len(b)))

\* the number of matched characters of SequenceMatcher(a=a, b=b)
Matches(a, b) ==
    IF a = <<>> \/ b = <<>> THEN 0
    ELSE MatchesAround(a, b, find_longest_match(a, b))

\* SequenceMatcher.ratio() >= 0.8, the ratio being 2.0 * matches / length
IsCloseMatch(option, word) ==
    IF Len(option) + Len(word) = 0 THEN TRUE
    ELSE 10 * Matches(option, word) >= 4 * (Len(option) + Len(word))

\* (rx, x) > (ry, y)
Outranks(rx, x, ry, y) == rx > ry \/ (rx = ry /\ StrLess(y, x))

\* (ratio(x), x) > (ratio(y), y), the order of heapq.nlargest
Better(x, y, word) ==
    Outranks(Matches(x, word) * (Len(y) + Len(word)), x,
             Matches(y, word) * (Len(x) + Len(word)), y)

RECURSIVE BestFirst(_, _)
BestFirst(S, word) ==
    IF S = {} THEN <<>>
    ELSE LET m == CHOOSE x \in S : \A y \in S : x = y \/ Better(x, y, word)
         IN <<m>> \o BestFirst(S \ {m}, word)

\* the n = 3 best of the ranked matches
FirstThree(ranked) == IF Len(ranked) > 3 THEN SubSeq(ranked, 1, 3) ELSE ranked

\* get_close_matches(word, possibilities, n=3, cutoff=0.8)
get_close_matches(word, possibilities) ==
    FirstThree(BestFirst({x \in possibilities : IsCloseMatch(x, word)}, word))

\* the options of options_map behind the matched keys
Originals(matches, opts) ==
    [i \in 1..Len(matches) |-> CHOOSE o \in opts : lower(o) = matches[i]]

\* the entries of a list
Elements(list) == {list[i] : i \in 1..Len(list)}

\* _suggest_matches matching against the options as displayed, not lowercased
suggest_matches_case_sensitive(value, options) ==
    IF ~Truthy(value) THEN <<>>
    ELSE get_close_matches(lower(strip(value)), Elements(options))

\* _suggest_matches(value, options)
suggest_matches(value, options) ==
    IF ~Truthy(value) THEN <<>>
    ELSE Originals(get_close_matches(lower(strip(value)), {lower(o) : o \in Elements(options)}),
                   Elements(options))

\* --------------------------------------------------------------- handlers

SearchCarsResult(results, d) == [type |-> "SearchCarsResult", results |-> results, decision |-> d]

GetCarDetailsResult(car, d) == [type |-> "GetCarDetailsResult", car |-> car, decision |-> d]

FinancingOptionsResult(price, d) == [type |-> "FinancingOptionsResult", price |-> price, decision |-> d]

KavakInfoResult(info_content, query, d) ==
    [type |-> "KavakInfoResult", info_content |-> info_content, query |-> query, decision |-> d]

ResponseResult(message, d) == [type |-> "ResponseResult", message |-> message, decision |-> d]

ClarifyResult(message, missing_fields, d) ==
    [type |-> "ClarifyResult", message |-> message, missing_fields |-> missing_fields, decision |-> d]

OutOfScopeResult(message, reason, d) ==
    [type |-> "OutOfScopeResult", message |-> message, reason |-> reason, decision |-> d]

ErrorResult(error, d) == [type |-> "ErrorResult", error |-> error, decision |-> d]

NoResult == [type |-> "none"]

\* a handler returned ret
Returned(ret) == [raised |-> "none", ret |-> ret]

\* a handler raised
Raised(exception) == [raised |-> exception, ret |-> NoResult]

\* the suggestions list built from the make and the model suggestions
Suggestions(make_suggestions, model_suggestions) ==
    (IF make_suggestions /= <<>>
     THEN <<Literal("marca '") \o make_suggestions[1] \o Literal("'")>> ELSE <<>>)
    \o (IF model_suggestions /= <<>>
        THEN <<Literal("modelo '") \o model_suggestions[1] \o Literal("'")>> ELSE <<>>)

\* the clarification when there is a suggestion, the search result otherwise
ClarifyIfSuggested(d, results, suggestions) ==
    IF suggestions /= <<>>
    THEN ClarifyResult(Literal("No encontré coincidencias exactas. ¿Te referías a ")
                           \o join(suggestions) \o Literal("?"),
                       <<>>, d)
    ELSE SearchCarsResult(results, d)

\* the make get_available_models is called with
KnownMake(make, available_makes) ==
    IF Truthy(make) /\ \E m \in Elements(available_makes) : lower(m) = lower(make)
    THEN make ELSE None

\* the zero-result branch of handle_search_cars
ZeroResults(d, results) ==
    ClarifyIfSuggested(
        d, results,
        Suggestions(
            IF Truthy(d.make) THEN suggest_matches(d.make, get_available_makes) ELSE <<>>,
            IF Truthy(d.model)
            THEN suggest_matches(d.model, get_available_models(KnownMake(d.make, get_available_makes)))
            ELSE <<>>))

\* handle_search_cars after the ambiguity test: the search and its outcome
Searched(d, results) ==
    IF results.raised
    THEN Returned(ErrorResult(Literal("InventoryError"), d))
    ELSE IF results.total_count = 0 /\ (Truthy(d.make) \/ Truthy(d.model))
    THEN Returned(ZeroResults(d, results))
    ELSE Returned(SearchCarsResult(results, d))

\* the ambiguity test of handle_search_cars on what get_makes_for_model gave
Ambiguity(d, makes_for_model) ==
    IF makes_for_model.raised
    THEN Raised("InventoryError")
    ELSE IF Len(makes_for_model.ret) > 1
    THEN Returned(ClarifyResult(Literal("Encontré el modelo ") \o d.model
                                    \o Literal(" en varias marcas: ") \o join(makes_for_model.ret)
                                    \o Literal(". ¿Cuál prefieres?"),
                                <<"make">>, d))
    ELSE Searched(d, search_vehicles(d.make, d.model, d.year, NoInt, d.price_max))

\* handle_search_cars(decision)
handle_search_cars(d) ==
    IF Truthy(d.model) /\ ~Truthy(d.make)
    THEN Ambiguity(d, get_makes_for_model(d.model))
    ELSE Searched(d, search_vehicles(d.make, d.model, d.year, NoInt, d.price_max))

\* the result of a lookup handler: the error, or the success built by its caller
Looked(d, r, success) ==
    IF r.raised THEN Returned(ErrorResult(Literal("InventoryError"), d)) ELSE Returned(success)

\* handle_get_car_details(decision)
handle_get_car_details(d) ==
    IF ~Truthy(d.stock_id)
    THEN Returned(ErrorResult(Literal("Se requiere el ID del auto para consultar detalles."), d))
    ELSE Looked(d, get_vehicle_details(d.stock_id),
                GetCarDetailsResult(get_vehicle_details(d.stock_id).car, d))

\* handle_get_kavak_info(decision)
handle_get_kavak_info(d) ==
    IF kavak_info = None
    THEN Returned(ErrorResult(Literal("FileNotFoundError"), d))
    ELSE Returned(KavakInfoResult(kavak_info,
                                  IF Truthy(d.info_query) THEN d.info_query
                                  ELSE Literal("información general"),
                                  d))

\* handle_get_financing_options falling back on vehicle 2 when the decision
\* carries no stock id
handle_get_financing_options_falls_back(d) ==
    IF ~Truthy(d.stock_id)
    THEN Looked(d, get_vehicle_details(<<"2">>),
                FinancingOptionsResult(get_vehicle_details(<<"2">>).car.price, d))
    ELSE Looked(d, get_vehicle_details(d.stock_id),
                FinancingOptionsResult(get_vehicle_details(d.stock_id).car.price, d))

\* handle_get_financing_options(decision)
handle_get_financing_options(d) ==
    IF ~Truthy(d.stock_id)
    THEN Returned(ErrorResult(Literal("Se requiere el ID del auto para consultar financiamiento."), d))
    ELSE Looked(d, get_vehicle_details(d.stock_id),
                FinancingOptionsResult(get_vehicle_details(d.stock_id).car.price, d))

\* handle_respond answering with the message in lower case
handle_respond_lowered(d) ==
    IF ~Truthy(d.message)
    THEN Returned(ErrorResult(Literal("La acción RESPOND requiere un mensaje."), d))
    ELSE Returned(ResponseResult(lower(d.message), d))

\* handle_respond(decision)
handle_respond(d) ==
    IF ~Truthy(d.message)
    THEN Returned(ErrorResult(Literal("La acción RESPOND requiere un mensaje."), d))
    ELSE Returned(ResponseResult(d.message, d))

\* handle_clarify(decision)
handle_clarify(d) ==
    Returned(ClarifyResult(IF Truthy(d.message) THEN d.message
                           ELSE Literal("¿Podrías proporcionar más información?"),
                           IF Truthy(d.missing_information) THEN d.missing_information ELSE <<>>,
                           d))

\* handle_out_of_scope(decision)
handle_out_of_scope(d) ==
    Returned(OutOfScopeResult(IF Truthy(d.message) THEN d.message
                              ELSE Literal("Lo siento, eso está fuera de mi alcance."),
                              d.reason,
                              d))

\* ----------------------------------------------------------------- router

\* _ACTION_HANDLERS
ACTION_HANDLERS ==
    [a \in AgentAction |->
        CASE a = "search_cars" -> "handle_search_cars"
          [] a = "get_car_details" -> "handle_get_car_details"
          [] a = "get_financing_options" -> "handle_get_financing_options"
          [] a = "get_kavak_info" -> "handle_get_kavak_info"
          [] a = "respond" -> "handle_respond"
          [] a = "clarify" -> "handle_clarify"
          [] a = "out_of_scope" -> "handle_out_of_scope"]

\* handler(decision)
Invoke(handler, d) ==
    CASE handler = "handle_search_cars" -> handle_search_cars(d)
      [] handler = "handle_get_car_details" -> handle_get_car_details(d)
      [] handler = "handle_get_financing_options" -> handle_get_financing_options(d)
      [] handler = "handle_get_kavak_info" -> handle_get_kavak_info(d)
      [] handler = "handle_respond" -> handle_respond(d)
      [] handler = "handle_clarify" -> handle_clarify(d)
      [] handler = "handle_out_of_scope" -> handle_out_of_scope(d)

\* what the handler gave, and that it was invoked
Dispatched(handler, r) == [raised |-> r.raised, ret |-> r.ret, invoked |-> <<handler>>]

\* route_decision answering nothing for an action that has no handler
route_decision_ignores_unmapped(d) ==
    IF d.action \notin DOMAIN ACTION_HANDLERS
    THEN [raised |-> "none", ret |-> NoResult, invoked |-> <<>>]
    ELSE Dispatched(ACTION_HANDLERS[d.action], Invoke(ACTION_HANDLERS[d.action], d))

\* route_decision(decision): what it returns or raises, and the handlers it invoked
route_decision(d) ==
    IF d.action \notin DOMAIN ACTION_HANDLERS
    THEN [raised |-> "ValueError", ret |-> NoResult, invoked |-> <<>>]
    ELSE Dispatched(ACTION_HANDLERS[d.action], Invoke(ACTION_HANDLERS[d.action], d))

\* -------------------------------------------------------------- presenter

\* UserReply(message=message, vehicles=vehicles, success=success)
UserReply(message, vehicles, success) ==
    [message |-> message, vehicles |-> vehicles, success |-> success]

DEFAULT_ERROR_MESSAGE ==
    Literal("Lo siento, ocurrió un problema al procesar tu solicitud. Por favor, intenta de nuevo.")

Digits == <<"0", "1", "2", "3", "4", "5", "6", "7", "8", "9">>

\* str(n) for n >= 0
RECURSIVE str(_)
str(n) == IF n < 10 THEN <<Digits[n + 1]>> ELSE str(n \div 10) \o <<Digits[(n % 10) + 1]>>

\* the three digits of a group after the first
ThreeDigits(n) == <<Digits[(n \div 100) + 1], Digits[((n \div 10) % 10) + 1], Digits[(n % 10) + 1]>>

\* f"{n:,.0f}" for a price without fraction
RECURSIVE Thousands(_)
Thousands(n) ==
    IF n < 1000 THEN str(n) ELSE Thousands(n \div 1000) \o <<",">> \o ThreeDigits(n % 1000)

\* " ".join(criteria_parts)
criteria_text(d) ==
    IF Truthy(d.make) /\ Truthy(d.model) THEN d.make \o <<" ">> \o d.model
    ELSE IF Truthy(d.make) THEN d.make
    ELSE IF Truthy(d.model) THEN d.model
    ELSE <<>>

\* _render_search_cars
render_search_cars(r) ==
    UserReply(
        IF r.results.total_count = 0
        THEN IF criteria_text(r.decision) /= <<>>
             THEN Literal("No encontré ") \o criteria_text(r.decision)
                      \o Literal(" con esos criterios. ¿Te gustaría buscar algo diferente?")
             ELSE Literal("No encontré vehículos con esos criterios. ¿Te gustaría buscar algo diferente?")
        ELSE IF r.results.total_count = 1
        THEN Literal("¡Encontré 1 vehículo que coincide con tu búsqueda!")
        ELSE Literal("¡Encontré ") \o str(r.results.total_count)
                 \o Literal(" vehículos que coinciden con tu búsqueda!"),
        r.results.results,
        TRUE)

\* _render_get_car_details
render_get_car_details(r) ==
    UserReply(Literal("Detalles del vehículo ") \o str(r.car.stock_id) \o <<":", " ">>
                  \o r.car.make \o <<" ">> \o r.car.model \o <<" ">> \o str(r.car.year),
              <<>>, TRUE)

\* _render_financing_options
render_financing_options(r) ==
    UserReply(Literal("Opciones de financiamiento para vehículo con precio ") \o <<"$">>
                  \o Thousands(r.price) \o Literal(" MXN"),
              <<>>, TRUE)

\* the prefix of the information message; the query follows it
KavakInfoPrefix == Literal("Información sobre Kavak: ")

\* _render_kavak_info
render_kavak_info(r) == UserReply(KavakInfoPrefix \o r.query, <<>>, TRUE)

\* a record written with logger.error or logger.exception
LogRecord(event, error) == [event |-> event, error |-> error]

\* what the presenter returns and what it logs
Rendered(ret, logged) == [ret |-> ret, log |-> logged]

\* _render_error echoing the error text to the user
render_error_echoes(r) ==
    Rendered(UserReply(r.error, <<>>, FALSE),
             <<LogRecord("Error en procesamiento de acción", r.error)>>)

\* _render_error
render_error(r) ==
    Rendered(UserReply(DEFAULT_ERROR_MESSAGE, <<>>, FALSE),
             <<LogRecord("Error en procesamiento de acción", r.error)>>)

\* render_reply(result)
render_reply(r) ==
    CASE r.type = "SearchCarsResult" -> Rendered(render_search_cars(r), <<>>)
      [] r.type = "GetCarDetailsResult" -> Rendered(render_get_car_details(r), <<>>)
      [] r.type = "FinancingOptionsResult" -> Rendered(render_financing_options(r), <<>>)
      [] r.type = "KavakInfoResult" -> Rendered(render_kavak_info(r), <<>>)
      [] r.type = "ResponseResult" -> Rendered(UserReply(r.message, <<>>, TRUE), <<>>)
      [] r.type = "ClarifyResult" -> Rendered(UserReply(r.message, <<>>, TRUE), <<>>)
      [] r.type = "OutOfScopeResult" -> Rendered(UserReply(r.message, <<>>, TRUE), <<>>)
      [] r.type = "ErrorResult" -> render_error(r)
      [] OTHER -> Rendered(UserReply(DEFAULT_ERROR_MESSAGE, <<>>, FALSE),
                           <<LogRecord("Tipo de resultado no soportado", Literal(r.type))>>)

\* ------------------------------------------------------------- enrichment

\* what a method of the reasoning backend does when called: it returns
\* content (the text of the completion, empty when there is none) or raises
Answer(raised, content, text) == [raised |-> raised, content |-> content, text |-> text]

\* what an enhancer returned or raised, and the backend methods it called
Enhanced(raised, text, ret, invoked) ==
    [raised |-> raised, text |-> text, ret |-> ret, invoked |-> invoked]

\* a character of the group [0-9,]+
IsPriceChar(ch) == IsDigit(ch) \/ ch = ","

\* the positions where \$([0-9,]+) matches
PriceMatches(message) ==
    {i \in 1..(Len(message) - 1) : message[i] = "$" /\ IsPriceChar(message[i + 1])}

\* the digits of the group that starts at position i, the commas removed
RECURSIVE PriceDigits(_, _)
PriceDigits(message, i) ==
    IF i > Len(message) \/ ~IsPriceChar(message[i]) THEN <<>>
    ELSE (IF message[i] = "," THEN <<>> ELSE <<message[i]>>) \o PriceDigits(message, i + 1)

\* the first match of re.search
FirstMatch(matches) == CHOOSE i \in matches : \A j \in matches : i <= j

\* the reply with the message the backend produced, or fallback when it produced none
WithMessage(r, answer, fallback) ==
    UserReply(IF Truthy(answer.content) THEN answer.content ELSE fallback, r.vehicles, r.success)

\* the call of a backend method on behalf of reply r
Asked(method, r, answer, fallback) ==
    IF answer.raised /= "none"
    THEN Enhanced(answer.raised, answer.text, r, <<method>>)
    ELSE Enhanced("none", <<>>, WithMessage(r, answer, fallback), <<method>>)

\* _generate_financing_reply(llm_adapter, user_text, reply)
generate_financing_reply(r, answer) ==
    IF PriceMatches(r.message) = {}
    THEN Enhanced("none", <<>>, r, <<>>)
    ELSE IF PriceDigits(r.message, FirstMatch(PriceMatches(r.message)) + 1) = <<>>
    THEN Enhanced("ValueError", Literal("could not convert string to float"), r, <<>>)
    ELSE Asked("generate_financing_response", r, answer,
               Literal("No se pudieron calcular las opciones de financiamiento."))

\* _generate_kavak_info_reply(llm_adapter, user_text, reply)
generate_kavak_info_reply(r, answer) ==
    IF kavak_info = None
    THEN Enhanced("Exception", Literal("Archivo de información no encontrado"), r, <<>>)
    ELSE Asked("generate_kavak_info_response", r, answer,
               Literal("No pude encontrar información específica sobre tu consulta."))

\* _humanize_reply(user_text, action, reply)
humanize_reply(r, answer) == Asked("humanize_response", r, answer, r.message)

\* _enhance_reply(user_text, action, reply): _RESPONSE_ENHANCERS, else the
\* general humanization
enhance_reply(action, r, answer) ==
    CASE action = "get_financing_options" -> generate_financing_reply(r, answer)
      [] action = "get_kavak_info" -> generate_kavak_info_reply(r, answer)
      [] OTHER -> humanize_reply(r, answer)

\* the two fixed replies of the except clauses of process()
ValidationErrorMessage ==
    Literal("Hubo un problema procesando tu solicitud. Por favor, intenta de nuevo.")

UnexpectedErrorMessage ==
    Literal("Lo siento, ocurrió un error inesperado. Por favor, intenta más tarde.")

\* the except clauses answering every failure with the message for ValueError
caught_one_message(kind, text) ==
    [ret |-> UserReply(ValidationErrorMessage, <<>>, FALSE),
     log |-> <<LogRecord("Error inesperado", text)>>]

\* process(): except ValueError / except Exception
caught(kind, text) ==
    IF kind = "ValueError"
    THEN [ret |-> UserReply(ValidationErrorMessage, <<>>, FALSE),
          log |-> <<LogRecord("Error de validación", text)>>]
    ELSE [ret |-> UserReply(UnexpectedErrorMessage, <<>>, FALSE),
          log |-> <<LogRecord("Error inesperado", text)>>]

\* ------------------------------------------------------------------- Init

\* process() has not returned
NoReply == [message |-> None, vehicles |-> <<>>, success |-> FALSE]

\* no event loop has been started
NoLoop == [runner |-> "none", ready |-> <<>>, running |-> FALSE, persist |-> "none"]

\* no turn is driven through process() step by step
\* no catalog file in the storage
NoFile == [exists |-> FALSE, rows |-> <<>>]

\* cache_clear(): nothing cached
NoCache == [hit |-> FALSE, vehicles |-> <<>>]

\* the catalog is given as loaded: the file and the cache play no part
NoCatalogIO == csv_file = "absent" /\ lru_cache = NoCache

NotRun ==
    /\ humanize = FALSE
    /\ steps = <<>>
    /\ returned = NoReply
    /\ log = <<>>
    /\ loop = NoLoop

Init ==
    /\ ttl_minutes \in TTLInputs
    /\ adapter = LocalStorageAdapter(ttl_minutes).adapter
    /\ ttl = LocalStorageAdapter(ttl_minutes).ttl
    /\ now = 0
    /\ store = [s \in Sessions |-> NoCtx]
    /\ heap = [a \in CtxIds |-> Unallocated]
    /\ nctx = 0
    /\ pc = [t \in Turns |-> "idle"]
    /\ session_id = [t \in Turns |-> NoSession]
    /\ ctx = [t \in Turns |-> NoCtx]
    /\ reply = [t \in Turns |-> [message |-> 0, vehicles |-> <<>>, success |-> FALSE, action |-> "none"]]
    /\ lastOp = Op("__init__", NoSession, NoCtx, adapter = "ready", 0)
    /\ removed = {}
    /\ wiped = {}
    /\ elapsed = {}
    /\ appended = [a \in CtxIds |-> <<>>]
    /\ user_text = <<>>
    /\ decision = NoDecision
    /\ guarded = NoDecision
    /\ catalog = <<>>
    /\ kavak_info = None
    /\ NoCatalogIO
    /\ result = NoDecision
    /\ calls = <<>>
    /\ NotRun

\* ---------------------------------------------------------------- actions

\* the clock advances
Tick ==
    /\ adapter = "ready"
    /\ now < MaxTime
    /\ now' = now + 1
    /\ elapsed' = elapsed \cup {a \in 1..nctx : now' - heap[a].updated_at > ttl}
    /\ UNCHANGED <<ttl_minutes, adapter, ttl, store, heap, nctx, turnVars, lastOp, removed, wiped, appended>>

\* a store method that returns r = [S, ret] runs under the lock
StoreCall(r) ==
    /\ adapter = "ready"
    /\ Becomes(r.S)
    /\ Removes(r.S)
    /\ UNCHANGED <<ttl_minutes, adapter, ttl, now, elapsed, appended>>

\* await store.get(sid)  (ConversationService.get_context)
Get(sid) ==
    /\ StoreCall(get(Self, sid))
    /\ UNCHANGED <<turnVars, lastOp>>

\* await store.exists(sid)
Exists(sid) ==
    /\ StoreCall(exists(Self, sid))
    /\ UNCHANGED <<turnVars, lastOp>>

\* await store.delete(sid)  (ConversationService.clear_session)
Delete(sid) ==
    /\ StoreCall(delete(Self, sid))
    /\ UNCHANGED <<turnVars, lastOp>>

\* await store.clear_all()
ClearAll ==
    /\ StoreCall(clear_all(Self))
    /\ UNCHANGED <<turnVars, lastOp>>

\* await store.cleanup_expired()
CleanupExpired ==
    /\ StoreCall(cleanup_expired(Self))
    /\ UNCHANGED <<turnVars, lastOp>>

\* ConversationService.select_vehicle(sid, stock_id): get, select, save
select_vehicle(S, sid, stock_id) ==
    LET r == get(S, sid)
    IN IF r.ret = NoCtx
       THEN [S |-> r.S, ret |-> NoVehicle]
       ELSE LET sel == select_vehicle_by_stock_id(r.S.h[r.ret], stock_id)
            IN IF sel.found
               THEN [S |-> save([r.S EXCEPT !.h[r.ret] = sel.c], r.ret), ret |-> stock_id]
               ELSE [S |-> r.S, ret |-> NoVehicle]

SelectVehicle(sid, stock_id) ==
    /\ StoreCall(select_vehicle(Self, sid, stock_id))
    /\ UNCHANGED <<turnVars, lastOp>>

\* process(), ConversationService.start_turn: ctx = await store.get_or_create(session_id)
StartTurn(t, sid) ==
    /\ pc[t] = "idle"
    /\ \A u \in Turns : u < t => pc[u] /= "idle"
    /\ nctx < MaxCtx
    /\ StoreCall(get_or_create(Self, sid))
    /\ ctx' = [ctx EXCEPT ![t] = get_or_create(Self, sid).ret]
    /\ session_id' = [session_id EXCEPT ![t] = sid]
    /\ pc' = [pc EXCEPT ![t] = "start"]
    /\ UNCHANGED <<reply, lastOp, decisionVars>>

\* ConversationService.start_turn: ctx.add_user_message(user_message)
AddUserMessage(t) ==
    /\ pc[t] = "start"
    /\ heap' = [heap EXCEPT ![ctx[t]] = add_user_message(@, t)]
    /\ appended' = [appended EXCEPT ![ctx[t]] = Append(@, Message("user", t))]
    /\ pc' = [pc EXCEPT ![t] = "decide"]
    /\ UNCHANGED <<ttl_minutes, adapter, ttl, now, store, nctx, session_id, ctx, reply, lastOp, decisionVars, removed, wiped, elapsed>>

\* the replies a turn can reach update_context with
Replies(t) ==
    {[message |-> t, vehicles |-> <<>>, success |-> TRUE, action |-> "respond"],
     [message |-> t, vehicles |-> <<[stock_id |-> 1]>>, success |-> TRUE, action |-> "search_cars"]}

\* process(): a step between start_turn and update_context raises; the except
\* clauses return the generic reply and no persist task is created
Fail(t) ==
    /\ pc[t] = "decide"
    /\ pc' = [pc EXCEPT ![t] = "failed"]
    /\ UNCHANGED <<ttl_minutes, adapter, ttl, now, store, heap, nctx, session_id, ctx, reply, lastOp, decisionVars, ghostVars>>

\* ConversationService._to_selected_vehicles: a SelectedVehicle is kept as
\* the stock id it carries
to_selected_vehicles(vehicles) == [i \in 1..Len(vehicles) |-> vehicles[i].stock_id]

\* update_context appending the assistant message only
update_context_message_only(c, r, action) == add_assistant_message(c, r.message)

\* update_context storing the reply's vehicles also when there are none
update_context_always_sets(c, r, action) ==
    LET c1 == set_search_results(c, to_selected_vehicles(r.vehicles))
        c2 == [c1 EXCEPT !.last_action = action]
    IN add_assistant_message(c2, r.message)

\* update_context selecting the first vehicle of the reply as well
update_context_selects_first(c, r, action) ==
    LET c1 == IF Len(r.vehicles) > 0
              THEN [set_search_results(c, to_selected_vehicles(r.vehicles))
                       EXCEPT !.selected_vehicle = r.vehicles[1].stock_id]
              ELSE c
        c2 == [c1 EXCEPT !.last_action = action]
    IN add_assistant_message(c2, r.message)

\* ConversationService.update_context
update_context(c, r, action) ==
    LET c1 == IF Len(r.vehicles) > 0
              THEN set_search_results(c, to_selected_vehicles(r.vehicles)) ELSE c
        c2 == [c1 EXCEPT !.last_action = action]
    IN add_assistant_message(c2, r.message)

\* process(): the decision, the guards, the router, the presenter and the
\* enrichment produce the reply (none of them touches the context or the
\* store); then update_context(ctx, reply, action), create_task(persist) and
\* return reply
Commit(t) ==
    /\ pc[t] = "decide"
    /\ \E r \in Replies(t) :
          /\ reply' = [reply EXCEPT ![t] = r]
          /\ heap' = [heap EXCEPT ![ctx[t]] = update_context(@, r, r.action)]
          /\ appended' = [appended EXCEPT ![ctx[t]] = Append(@, Message("assistant", r.message))]
    /\ pc' = [pc EXCEPT ![t] = "persist"]
    /\ UNCHANGED <<ttl_minutes, adapter, ttl, now, store, nctx, session_id, ctx, lastOp, decisionVars, removed, wiped, elapsed>>

\* ConversationService.persist_context: await store.save(ctx)
persist_context(S, a) == save(S, a)

\* _persist_context_with_logging: the detached task runs persist_context(ctx)
Persist(t) ==
    /\ pc[t] = "persist"
    /\ Becomes(persist_context(Self, ctx[t]))
    /\ pc' = [pc EXCEPT ![t] = "done"]
    /\ UNCHANGED <<ttl_minutes, adapter, ttl, now, session_id, ctx, reply, lastOp, decisionVars, ghostVars>>

Next ==
    \/ Tick
    \/ \E sid \in Sessions : Get(sid)
    \/ \E sid \in Sessions : Exists(sid)
    \/ \E sid \in Sessions : Delete(sid)
    \/ ClearAll
    \/ CleanupExpired
    \/ \E sid \in Sessions, k \in StockIds : SelectVehicle(sid, k)
    \/ \E t \in Turns, sid \in Sessions : StartTurn(t, sid)
    \/ \E t \in Turns : AddUserMessage(t)
    \/ \E t \in Turns : Fail(t)
    \/ \E t \in Turns : Commit(t)
    \/ \E t \in Turns : Persist(t)

\* concurrent turns and administrative calls on one store
Spec == Init /\ [][Next]_vars

\* ------------------------------------------- the store seen by one client
\* A client calls the adapter's methods one after the other, keeps every
\* context the adapter handed out, and sees what each call returns (lastOp).

CallGetOrCreate(sid) ==
    /\ nctx < MaxCtx
    /\ StoreCall(get_or_create(Self, sid))
    /\ lastOp' = Op("get_or_create", sid, get_or_create(Self, sid).ret,
                    get_or_create(Self, sid).S.n /= nctx, 0)
    /\ UNCHANGED turnVars

CallGet(sid) ==
    /\ StoreCall(get(Self, sid))
    /\ lastOp' = Op("get", sid, get(Self, sid).ret, get(Self, sid).S.m /= store, 0)
    /\ UNCHANGED turnVars

CallExists(sid) ==
    /\ StoreCall(exists(Self, sid))
    /\ lastOp' = Op("exists", sid, NoCtx, exists(Self, sid).ret, 0)
    /\ UNCHANGED turnVars

CallDelete(sid) ==
    /\ StoreCall(delete(Self, sid))
    /\ lastOp' = Op("delete", sid, NoCtx, delete(Self, sid).ret, 0)
    /\ UNCHANGED turnVars

CallClearAll ==
    /\ StoreCall(clear_all(Self))
    /\ lastOp' = Op("clear_all", NoSession, NoCtx, TRUE, clear_all(Self).ret)
    /\ UNCHANGED turnVars

CallCleanupExpired ==
    /\ StoreCall(cleanup_expired(Self))
    /\ lastOp' = Op("cleanup_expired", NoSession, NoCtx, TRUE, cleanup_expired(Self).ret)
    /\ UNCHANGED turnVars

\* await adapter.save(context), for a context the client holds
CallSave(a) ==
    /\ adapter = "ready"
    /\ a \in 1..nctx
    /\ Becomes(save(Self, a))
    /\ lastOp' = Op("save", heap[a].session_id, a, TRUE, 0)
    /\ UNCHANGED <<ttl_minutes, adapter, ttl, now, turnVars, ghostVars>>

\* context.add_user_message(...), for a context the client holds
CallAddMessage(a) ==
    /\ adapter = "ready"
    /\ a \in 1..nctx
    /\ Len(appended[a]) < MaxClientMessages
    /\ heap' = [heap EXCEPT ![a] = add_user_message(@, Len(appended[a]) + 1)]
    /\ appended' = [appended EXCEPT ![a] = Append(@, Message("user", Len(appended[a]) + 1))]
    /\ UNCHANGED <<ttl_minutes, adapter, ttl, now, store, nctx, turnVars, lastOp, removed, wiped, elapsed>>

\* context.set_search_results(vehicles), for a context the client holds
CallSetSearchResults(a, vehicles) ==
    /\ adapter = "ready"
    /\ a \in 1..nctx
    /\ heap' = [heap EXCEPT ![a] = set_search_results(@, vehicles)]
    /\ UNCHANGED <<ttl_minutes, adapter, ttl, now, store, nctx, turnVars, lastOp, ghostVars>>

\* context.select_vehicle_by_stock_id(stock_id), for a context the client holds
CallSelectVehicle(a, stock_id) ==
    /\ adapter = "ready"
    /\ a \in 1..nctx
    /\ heap' = [heap EXCEPT ![a] = select_vehicle_by_stock_id(@, stock_id).c]
    /\ UNCHANGED <<ttl_minutes, adapter, ttl, now, store, nctx, turnVars, lastOp, ghostVars>>

NextStore ==
    \/ Tick
    \/ \E sid \in Sessions : CallGetOrCreate(sid)
    \/ \E sid \in Sessions : CallGet(sid)
    \/ \E sid \in Sessions : CallExists(sid)
    \/ \E sid \in Sessions : CallDelete(sid)
    \/ CallClearAll
    \/ CallCleanupExpired
    \/ \E a \in CtxIds : CallSave(a)
    \/ \E a \in CtxIds : CallAddMessage(a)

SpecStore == Init /\ [][NextStore]_vars

\* --------------------------------------- one context object and its methods
\* ctx = ConversationContext(session_id="s1"), constructed by the caller

InitContext ==
    /\ ttl_minutes \in 1..MaxTTLInput
    /\ adapter = LocalStorageAdapter(ttl_minutes).adapter
    /\ ttl = LocalStorageAdapter(ttl_minutes).ttl
    /\ now \in 0..MaxTime
    /\ store = [s \in Sessions |-> NoCtx]
    /\ heap = [a \in CtxIds |-> IF a = 1 THEN ConversationContext("s1") ELSE Unallocated]
    /\ nctx = 1
    /\ pc = [t \in Turns |-> "idle"]
    /\ session_id = [t \in Turns |-> NoSession]
    /\ ctx = [t \in Turns |-> NoCtx]
    /\ reply = [t \in Turns |-> [message |-> 0, vehicles |-> <<>>, success |-> FALSE, action |-> "none"]]
    /\ lastOp = Op("__init__", NoSession, NoCtx, TRUE, 0)
    /\ removed = {}
    /\ wiped = {}
    /\ elapsed = {}
    /\ appended = [a \in CtxIds |-> <<>>]
    /\ user_text = <<>>
    /\ decision = NoDecision
    /\ guarded = NoDecision
    /\ catalog = <<>>
    /\ kavak_info = None
    /\ NoCatalogIO
    /\ result = NoDecision
    /\ calls = <<>>
    /\ NotRun

NextContext ==
    \/ Tick
    \/ CallAddMessage(1)
    \/ CallSetSearchResults(1, <<1>>)
    \/ \E k \in StockIds : CallSelectVehicle(1, k)
    \/ CallSave(1)

SpecContext == InitContext /\ [][NextContext]_vars

\* number of assistant messages appended so far
AssistantAppends(a) ==
    Cardinality({i \in 1..Len(appended[a]) : appended[a][i].role = "assistant"})

\* ctx.add_user_message(content): content is the number of the append
AppendUser ==
    /\ Len(appended[1]) < MaxAppends
    /\ heap' = [heap EXCEPT ![1] = add_user_message(@, Len(appended[1]) + 1)]
    /\ appended' = [appended EXCEPT ![1] = Append(@, Message("user", Len(appended[1]) + 1))]
    /\ UNCHANGED <<ttl_minutes, adapter, ttl, now, store, nctx, turnVars, lastOp, removed, wiped, elapsed>>

\* ctx.add_assistant_message(content)
AppendAssistant ==
    /\ Len(appended[1]) < MaxAppends
    /\ AssistantAppends(1) < MaxAssistantAppends
    /\ heap' = [heap EXCEPT ![1] = add_assistant_message(@, Len(appended[1]) + 1)]
    /\ appended' = [appended EXCEPT ![1] = Append(@, Message("assistant", Len(appended[1]) + 1))]
    /\ UNCHANGED <<ttl_minutes, adapter, ttl, now, store, nctx, turnVars, lastOp, removed, wiped, elapsed>>

NextAppend ==
    \/ AppendUser
    \/ AppendAssistant

SpecAppend == InitContext /\ [][NextAppend]_vars

\* ------------------------------------- the clarify guards called directly

\* raw user texts: no marker, markers, a marker in capitals, a marker inside
\* a word, near misses and the empty text
Texts ==
    {<<"f", "i", "n", "a", "n", "c", "i", "a", "r">>,
     <<"e", "l", " ", "m", "a", "s", " ", "b", "a", "r", "a", "t", "o">>,
     <<"E", "l", " ", "M", "Á", "S", " ", "B", "a", "r", "a", "t", "o">>,
     <<"q", "u", "i", "e", "r", "o", " ", "e", "s", "e">>,
     <<"E", "S", "E">>,
     <<"i", "n", "t", "e", "r", "e", "s", "e", "s">>,
     <<"l", "a", " ", "R", "o", "j", "a">>,
     <<"e", "s", " ", "e", "l", " ", "r", "o", "j">>,
     <<>>}

StockIdTexts == {None, <<>>, <<"1">>, <<"9">>}

\* the decisions the reasoning backend hands to the guards
GuardDecisions ==
    {[AgentDecision(a) EXCEPT !.stock_id = k, !.message = m] :
        a \in AgentAction, k \in StockIdTexts, m \in {None, <<"o", "k">>}}

ResultLists == {<<>>, <<1>>, <<1, 2>>}

\* a context in any state its methods can leave it in, a text and a decision
InitGuard ==
    /\ ttl_minutes = 1
    /\ adapter = LocalStorageAdapter(ttl_minutes).adapter
    /\ ttl = LocalStorageAdapter(ttl_minutes).ttl
    /\ now = 0
    /\ store \in {[s \in Sessions |-> NoCtx], [s \in Sessions |-> IF s = "s1" THEN 1 ELSE NoCtx]}
    /\ \E sel \in {NoVehicle} \cup StockIds, res \in ResultLists, act \in {"none", "search_cars"} :
          heap = [a \in CtxIds |->
                    IF a = 1
                    THEN [ConversationContext("s1") EXCEPT !.selected_vehicle = sel,
                                                          !.last_search_results = res,
                                                          !.last_action = act]
                    ELSE Unallocated]
    /\ nctx = 1
    /\ pc = [t \in Turns |-> "idle"]
    /\ session_id = [t \in Turns |-> NoSession]
    /\ ctx = [t \in Turns |-> NoCtx]
    /\ reply = [t \in Turns |-> [message |-> 0, vehicles |-> <<>>, success |-> FALSE, action |-> "none"]]
    /\ lastOp = Op("__init__", NoSession, NoCtx, TRUE, 0)
    /\ removed = {}
    /\ wiped = {}
    /\ elapsed = {}
    /\ appended = [a \in CtxIds |-> <<>>]
    /\ user_text \in Texts
    /\ decision \in GuardDecisions
    /\ guarded = NoDecision
    /\ catalog = <<>>
    /\ kavak_info = None
    /\ NoCatalogIO
    /\ result = NoDecision
    /\ calls = <<>>
    /\ NotRun

\* decision = self._apply_clarify_guards(user_text, decision, ctx)
ApplyClarifyGuards ==
    /\ guarded = NoDecision
    /\ LET r == apply_clarify_guards(user_text, decision, heap[1])
       IN /\ guarded' = r.ret
          /\ decision' = r.decision
          /\ heap' = [heap EXCEPT ![1] = r.ctx]
    /\ UNCHANGED <<ttl_minutes, adapter, ttl, now, store, nctx, pc, session_id, ctx, reply,
                   lastOp, ghostVars, user_text, catalog, kavak_info, ioVars, result, calls, runVars>>

NextGuard == ApplyClarifyGuards

SpecGuard == InitGuard /\ [][NextGuard]_vars

\* ------------------------------------------------ the router called directly

\* loaded catalogs: one where the model uno has two makes, one where every
\* model has one make, and the catalog whose load raises
Datasets ==
    {<<VehicleRow(1, <<"f", "i", "a", "t">>, <<"u", "n", "o">>, 2019, 10, 100),
       VehicleRow(2, <<"s", "e", "a", "t">>, <<"u", "n", "o">>, 2020, 20, 120),
       VehicleRow(3, <<"s", "e", "a", "t">>, <<"l", "e", "o", "n">>, 2020, 30, 150)>>,
     <<VehicleRow(1, <<"f", "i", "a", "t">>, <<"u", "n", "o">>, 2019, 10, 100),
       VehicleRow(3, <<"s", "e", "a", "t">>, <<"l", "e", "o", "n">>, 2020, 30, 150)>>,
     <<>>}

MakeTexts ==
    {None, <<>>, <<" ">>, <<"F", "i", "a", "t">>, <<"f", "i", "a">>, <<"b", "m", "w">>}

ModelTexts ==
    {None, <<"U", "n", "o">>, <<"l", "e", "o">>, <<"L", "e", "o", "n">>, <<"g", "o", "l", "f">>}

Years == {NoInt, 2019, 2021}

MessageTexts == {None, <<>>, <<"o", "k">>}

\* the decisions route_decision is called with, the fields an action reads
\* varied with it; "unsupported" is an action value outside AgentAction, on a
\* decision built without validation
RoutedDecisions ==
    {[AgentDecision("search_cars") EXCEPT !.make = mk, !.model = md, !.year = y] :
        mk \in MakeTexts, md \in ModelTexts, y \in Years}
    \cup {[AgentDecision(a) EXCEPT !.stock_id = k, !.message = m] :
            a \in {"get_car_details", "get_financing_options"},
            k \in StockIdTexts \cup {<<"x">>}, m \in {None, <<"o", "k">>}}
    \cup {[AgentDecision(a) EXCEPT !.message = m, !.stock_id = k] :
            a \in {"respond", "clarify", "out_of_scope", "get_kavak_info", "unsupported"},
            m \in MessageTexts, k \in {None, <<"1">>}}

InitRouter ==
    /\ ttl_minutes = 1
    /\ adapter = LocalStorageAdapter(ttl_minutes).adapter
    /\ ttl = LocalStorageAdapter(ttl_minutes).ttl
    /\ now = 0
    /\ store = [s \in Sessions |-> NoCtx]
    /\ heap = [a \in CtxIds |-> Unallocated]
    /\ nctx = 0
    /\ pc = [t \in Turns |-> "idle"]
    /\ session_id = [t \in Turns |-> NoSession]
    /\ ctx = [t \in Turns |-> NoCtx]
    /\ reply = [t \in Turns |-> [message |-> 0, vehicles |-> <<>>, success |-> FALSE, action |-> "none"]]
    /\ lastOp = Op("__init__", NoSession, NoCtx, TRUE, 0)
    /\ removed = {}
    /\ wiped = {}
    /\ elapsed = {}
    /\ appended = [a \in CtxIds |-> <<>>]
    /\ user_text = <<>>
    /\ decision = NoDecision
    /\ guarded \in RoutedDecisions
    /\ catalog \in Datasets
    /\ kavak_info \in {None, Literal("info.txt")}
    /\ NoCatalogIO
    /\ result = NoDecision
    /\ calls = <<>>
    /\ NotRun

\* result = route_decision(decision)
RouteDecision ==
    /\ result = NoDecision
    /\ result' = [raised |-> route_decision(guarded).raised, ret |-> route_decision(guarded).ret]
    /\ calls' = calls \o route_decision(guarded).invoked
    /\ UNCHANGED <<ttl_minutes, adapter, ttl, now, store, heap, nctx, pc, session_id, ctx, reply,
                   lastOp, ghostVars, user_text, decision, guarded, catalog, kavak_info, ioVars, runVars>>

NextRouter == RouteDecision

SpecRouter == InitRouter /\ [][NextRouter]_vars

\* --------------------------------------------- one turn through process()
\* process(user_text, session_id="s1", humanize) runs as the main task of an
\* event loop.  None of its awaits suspends (the store's methods return
\* without waiting), so the whole call is one step of the main task; the
\* model shows its statements one by one.  loop.ready is the loop's queue of
\* ready handles, run first in first out.

TurnTexts == {<<"h", "o", "l", "a">>, <<"q", "u", "i", "e", "r", "o", " ", "e", "s", "e">>}

FailureTexts == {Literal("connection reset by peer"), Literal("rate limit exceeded")}

Prose == Literal("¡Claro! Esto es lo que encontré para ti.")

\* what get_agent_decision returns
TurnDecisions ==
    {[AgentDecision("respond") EXCEPT !.message = m] : m \in {None, <<"O", "k">>}}
    \cup {[AgentDecision("search_cars") EXCEPT !.make = mk, !.model = md] :
            mk \in {None, <<"S", "e", "a", "t">>, <<"f", "i", "a">>},
            md \in {None, <<"U", "n", "o">>}}
    \cup {[AgentDecision(a) EXCEPT !.stock_id = k] :
            a \in {"get_financing_options", "get_car_details"}, k \in {None, <<"1">>}}
    \cup {AgentDecision("get_kavak_info"), AgentDecision("out_of_scope")}

\* what the backend does when asked to enrich a reply
EnrichAnswers ==
    {Answer("none", Prose, <<>>), Answer("none", <<>>, <<>>)}
    \cup {Answer("Exception", <<>>, t) : t \in FailureTexts}

\* what the backend does when asked for the decision: OpenAIAdapter raises
\* ValueError when the completion cannot be parsed, the client raises its own errors
DecideFailures ==
    {Answer("ValueError", <<>>, Literal("No se pudo parsear la respuesta del modelo."))}
    \cup {Answer("Exception", <<>>, t) : t \in FailureTexts}

\* the context of a session that has had a search turn before
PriorContext ==
    update_context(add_user_message(ConversationContext("s1"), <<"h", "o", "l", "a">>),
                   UserReply(Prose, <<[stock_id |-> 2]>>, TRUE),
                   "search_cars")

\* the same context after select_vehicle("s1", 2) of the conversation service
SelectedContext == select_vehicle_by_stock_id(PriorContext, 2).c

\* asyncio.run(coro) (the Lambda entrypoint's _run_async) or a loop that keeps
\* running after the call (a server, a test session)
Runners == {"asyncio.run", "running loop"}

InitTurn ==
    /\ ttl_minutes = 1
    /\ adapter = LocalStorageAdapter(ttl_minutes).adapter
    /\ ttl = LocalStorageAdapter(ttl_minutes).ttl
    /\ now = 0
    /\ \E prior \in BOOLEAN :
          /\ store = [s \in Sessions |-> IF prior /\ s = "s1" THEN 1 ELSE NoCtx]
          /\ \E c \in {PriorContext, SelectedContext} :
                heap = [a \in CtxIds |-> IF prior /\ a = 1 THEN c ELSE Unallocated]
          /\ nctx = IF prior THEN 1 ELSE 0
    /\ pc = [t \in Turns |-> "idle"]
    /\ session_id = [t \in Turns |-> IF t = 1 THEN "s1" ELSE NoSession]
    /\ ctx = [t \in Turns |-> NoCtx]
    /\ reply = [t \in Turns |-> NoReply]
    /\ lastOp = Op("__init__", NoSession, NoCtx, TRUE, 0)
    /\ removed = {}
    /\ wiped = {}
    /\ elapsed = {}
    /\ appended = [a \in CtxIds |-> <<>>]
    /\ user_text \in TurnTexts
    /\ decision = NoDecision
    /\ guarded = NoDecision
    /\ catalog \in {d \in Datasets : Len(d) /= 2}
    /\ kavak_info \in {None, Literal("info.txt")}
    /\ NoCatalogIO
    /\ result = NoDecision
    /\ calls = <<>>
    /\ humanize \in BOOLEAN
    /\ steps = <<>>
    /\ returned = NoReply
    /\ log = <<>>
    /\ \E r \in Runners : loop = [runner |-> r, ready |-> <<"process">>, running |-> TRUE, persist |-> "none"]

\* the main task is running process()
InProcess == loop.running /\ loop.ready /= <<>> /\ Head(loop.ready) = "process"

\* the main task is done: asyncio.run stops its loop from the task's done callback
MainDone(handles) ==
    [loop EXCEPT !.ready = Tail(@) \o handles
                            \o (IF loop.runner = "asyncio.run" THEN <<"stop">> ELSE <<>>)]

\* the except clauses starting the persist task before they return
Except_persists(step, kind, text) ==
    /\ returned' = caught(kind, text).ret
    /\ log' = log \o caught(kind, text).log
    /\ steps' = steps \o <<step, IF kind = "ValueError" THEN "except ValueError" ELSE "except Exception">>
    /\ pc' = [pc EXCEPT ![1] = "failed"]
    /\ loop' = [MainDone(<<"persist">>) EXCEPT !.persist = "pending"]

\* an exception of the given kind leaves the try block of process(): the
\* except clauses log it and return the generic reply
Except(step, kind, text) ==
    /\ returned' = caught(kind, text).ret
    /\ log' = log \o caught(kind, text).log
    /\ steps' = steps \o <<step, IF kind = "ValueError" THEN "except ValueError" ELSE "except Exception">>
    /\ pc' = [pc EXCEPT ![1] = "failed"]
    /\ loop' = MainDone(<<>>)

\* the statement ran to its end
Ran(step) ==
    /\ steps' = Append(steps, step)
    /\ pc' = [pc EXCEPT ![1] = step]
    /\ UNCHANGED <<returned, loop>>

storeVars == <<ttl_minutes, adapter, ttl, now, store, nctx, lastOp, removed, wiped, elapsed>>

\* ctx = await self.conversation_service.start_turn(session_id, user_text)
TurnStart ==
    /\ InProcess /\ pc[1] = "idle"
    /\ LET r == get_or_create(Self, "s1")
       IN /\ store' = r.S.m
          /\ nctx' = r.S.n
          /\ heap' = [r.S.h EXCEPT ![r.ret] = add_user_message(@, user_text)]
          /\ ctx' = [ctx EXCEPT ![1] = r.ret]
          /\ appended' = [appended EXCEPT ![r.ret] = Append(@, Message("user", user_text))]
    /\ Ran("start")
    /\ UNCHANGED <<ttl_minutes, adapter, ttl, now, lastOp, removed, wiped, elapsed, session_id, reply,
                   user_text, decision, guarded, catalog, kavak_info, ioVars, result, calls, humanize, log>>

\* decision = self.llm_adapter.get_agent_decision(user_text, context=ctx)
Decide ==
    /\ InProcess /\ pc[1] = "start"
    /\ calls' = Append(calls, "get_agent_decision")
    /\ \/ \E d \in TurnDecisions :
             /\ decision' = d
             /\ Ran("decide")
             /\ UNCHANGED log
       \/ \E f \in DecideFailures :
             /\ Except("decide", f.raised, f.text)
             /\ UNCHANGED decision
    /\ UNCHANGED <<storeVars, heap, appended, session_id, ctx, reply,
                   user_text, guarded, catalog, kavak_info, ioVars, result, humanize>>

\* the guards run a second time, after the router
Guard_again ==
    /\ InProcess /\ pc[1] \in {"decide", "route"}
    /\ guarded' = apply_clarify_guards(user_text, decision, heap[ctx[1]]).ret
    /\ heap' = [heap EXCEPT ![ctx[1]] = apply_clarify_guards(user_text, decision, heap[ctx[1]]).ctx]
    /\ Ran("guard")
    /\ UNCHANGED <<storeVars, appended, session_id, ctx, reply,
                   user_text, decision, catalog, kavak_info, ioVars, result, calls, humanize, log>>

\* decision = self._apply_clarify_guards(user_text, decision, ctx)
Guard ==
    /\ InProcess /\ pc[1] = "decide"
    /\ guarded' = apply_clarify_guards(user_text, decision, heap[ctx[1]]).ret
    /\ heap' = [heap EXCEPT ![ctx[1]] = apply_clarify_guards(user_text, decision, heap[ctx[1]]).ctx]
    /\ Ran("guard")
    /\ UNCHANGED <<storeVars, appended, session_id, ctx, reply,
                   user_text, decision, catalog, kavak_info, ioVars, result, calls, humanize, log>>

\* str(e) of what route_decision raises
RaisedText(raised) ==
    IF raised = "ValueError" THEN Literal("Acción no soportada")
    ELSE Literal("El archivo del catálogo no se encuentra: resources/sample_caso_ai_engineer.csv")

\* the except clause an exception class is caught by
Kind(raised) == IF raised = "ValueError" THEN "ValueError" ELSE "Exception"

\* the outcome of result = route_decision(decision)
Routes(r) ==
    /\ result' = [raised |-> r.raised, ret |-> r.ret]
    /\ calls' = calls \o r.invoked
    /\ IF r.raised = "none"
       THEN Ran("route") /\ UNCHANGED log
       ELSE Except("route", Kind(r.raised), RaisedText(r.raised))

\* result = route_decision(decision)
Route ==
    /\ InProcess /\ pc[1] = "guard"
    /\ Routes(route_decision(guarded))
    /\ UNCHANGED <<storeVars, heap, appended, session_id, ctx, reply,
                   user_text, decision, guarded, catalog, kavak_info, ioVars, humanize>>

\* reply = render_reply(result)
Render ==
    /\ InProcess /\ pc[1] = "route"
    /\ reply' = [reply EXCEPT ![1] = render_reply(result.ret).ret]
    /\ log' = log \o render_reply(result.ret).log
    /\ Ran("render")
    /\ UNCHANGED <<storeVars, heap, appended, session_id, ctx,
                   user_text, decision, guarded, catalog, kavak_info, ioVars, result, calls, humanize>>

\* the test of line 82 passing every reply on to the enrichment
should_enhance_any(h, r) == h

\* if humanize and reply.success
should_enhance(h, r) == h /\ r.success

\* the outcome of reply = self._enhance_reply(user_text, decision.action, reply)
Enhances(e) ==
    /\ calls' = calls \o e.invoked
    /\ IF e.raised = "none"
       THEN /\ reply' = [reply EXCEPT ![1] = e.ret]
            /\ Ran("enrich")
            /\ UNCHANGED log
       ELSE /\ Except("enrich", Kind(e.raised), e.text)
            /\ UNCHANGED reply

\* reply = self._enhance_reply(user_text, decision.action, reply)
Enrich ==
    /\ InProcess /\ pc[1] = "render"
    /\ should_enhance(humanize, reply[1])
    /\ \E answer \in EnrichAnswers : Enhances(enhance_reply(guarded.action, reply[1], answer))
    /\ UNCHANGED <<storeVars, heap, appended, session_id, ctx,
                   user_text, decision, guarded, catalog, kavak_info, ioVars, result, humanize>>

\* self.conversation_service.update_context(ctx, reply, decision.action.value)
CommitMemory ==
    /\ InProcess
    /\ \/ pc[1] = "enrich"
       \/ pc[1] = "render" /\ ~should_enhance(humanize, reply[1])
    /\ heap' = [heap EXCEPT ![ctx[1]] = update_context(@, reply[1], guarded.action)]
    /\ appended' = [appended EXCEPT ![ctx[1]] = Append(@, Message("assistant", reply[1].message))]
    /\ Ran("commit")
    /\ UNCHANGED <<storeVars, session_id, ctx, reply,
                   user_text, decision, guarded, catalog, kavak_info, ioVars, result, calls, humanize, log>>

\* the outcome of await self._store.save(ctx) in the persist task
Saves(ok, text) ==
    IF ok
    THEN /\ Becomes(persist_context(Self, ctx[1]))
         /\ UNCHANGED log
    ELSE /\ log' = Append(log, LogRecord("Error persistiendo contexto (fire-and-forget)", text))
         /\ UNCHANGED <<store, heap, nctx>>

\* process() awaiting the save before it returns, a failure of the save
\* reaching the except clauses
Return_after_save ==
    /\ InProcess /\ pc[1] = "commit"
    /\ \E ok \in BOOLEAN, text \in FailureTexts :
          IF ok
          THEN /\ Becomes(persist_context(Self, ctx[1]))
               /\ returned' = reply[1]
               /\ steps' = Append(steps, "persist")
               /\ pc' = [pc EXCEPT ![1] = "returned"]
               /\ loop' = [MainDone(<<>>) EXCEPT !.persist = "saved"]
               /\ UNCHANGED log
          ELSE /\ Except("persist", "Exception", text)
               /\ UNCHANGED <<store, heap, nctx>>
    /\ UNCHANGED <<ttl_minutes, adapter, ttl, now, lastOp, ghostVars, session_id, ctx, reply,
                   user_text, decision, guarded, catalog, kavak_info, ioVars, result, calls, humanize>>

\* the persist task scheduled behind the handle that stops the loop
Return_stop_first ==
    /\ InProcess /\ pc[1] = "commit"
    /\ returned' = reply[1]
    /\ steps' = Append(steps, "persist")
    /\ pc' = [pc EXCEPT ![1] = "returned"]
    /\ loop' = [loop EXCEPT !.ready = Tail(@) \o (IF loop.runner = "asyncio.run" THEN <<"stop">> ELSE <<>>)
                                          \o <<"persist">>,
                            !.persist = "pending"]
    /\ UNCHANGED <<storeVars, heap, appended, session_id, ctx, reply,
                   user_text, decision, guarded, catalog, kavak_info, ioVars, result, calls, humanize, log>>

\* asyncio.create_task(self._persist_context_with_logging(ctx, session_id));
\* return reply
Return ==
    /\ InProcess /\ pc[1] = "commit"
    /\ returned' = reply[1]
    /\ steps' = Append(steps, "persist")
    /\ pc' = [pc EXCEPT ![1] = "returned"]
    /\ loop' = [MainDone(<<"persist">>) EXCEPT !.persist = "pending"]
    /\ UNCHANGED <<storeVars, heap, appended, session_id, ctx, reply,
                   user_text, decision, guarded, catalog, kavak_info, ioVars, result, calls, humanize, log>>

\* the loop runs the persist task: _persist_context_with_logging(ctx, session_id).
\* LocalStorageAdapter.save returns without waiting, so the task ends in this
\* step; a store whose save raises is logged
RunPersist ==
    /\ loop.running /\ loop.ready /= <<>> /\ Head(loop.ready) = "persist"
    /\ \E ok \in BOOLEAN, text \in FailureTexts :
          /\ Saves(ok, text)
          /\ loop' = [loop EXCEPT !.ready = Tail(@), !.persist = IF ok THEN "saved" ELSE "logged"]
    /\ UNCHANGED <<ttl_minutes, adapter, ttl, now, lastOp, ghostVars, pc, session_id, ctx, reply,
                   user_text, decision, guarded, catalog, kavak_info, ioVars, result, calls,
                   humanize, steps, returned>>

\* asyncio.run: the loop stops, the tasks still pending are cancelled and the
\* loop is closed
LoopStop ==
    /\ loop.running /\ loop.ready /= <<>> /\ Head(loop.ready) = "stop"
    /\ loop' = [loop EXCEPT !.ready = <<>>,
                            !.running = FALSE,
                            !.persist = IF @ = "pending" THEN "cancelled" ELSE @]
    /\ UNCHANGED <<storeVars, heap, appended, pc, session_id, ctx, reply,
                   user_text, decision, guarded, catalog, kavak_info, ioVars, result, calls,
                   humanize, steps, returned, log>>

NextTurn ==
    \/ TurnStart
    \/ Decide
    \/ Guard
    \/ Route
    \/ Render
    \/ Enrich
    \/ CommitMemory
    \/ Return
    \/ RunPersist
    \/ LoopStop

SpecTurn == InitTurn /\ [][NextTurn]_vars

\* the loop runs every handle that is ready
SpecTurnLive == SpecTurn /\ WF_vars(RunPersist) /\ WF_vars(LoopStop)

TypeOK ==
    /\ adapter \in {"ready", "failed"}
    /\ now \in 0..MaxTime
    /\ nctx \in 0..MaxCtx
    /\ \A s \in Sessions : store[s] \in 0..nctx
    /\ \A t \in Turns : ctx[t] \in 0..nctx

\* ------------------------------------------------------------- properties

\* the age of a context, as _is_expired measures it
Age(a) == now - heap[a].updated_at

\* the entry of sid is present and its age is at most the TTL
Live(sid) == store[sid] /= NoCtx /\ Age(store[sid]) <= ttl

\* no context object was ever made for sid
NeverCreated(sid) == \A a \in 1..nctx : heap[a].session_id /= sid

\* the messages of a context hold the user message and then the assistant message of turn t
TurnMessagesIn(a, t) ==
    \E i, j \in 1..Len(heap[a].messages) :
        /\ i < j
        /\ heap[a].messages[i].role = "user" /\ heap[a].messages[i].content = t
        /\ heap[a].messages[j].role = "assistant" /\ heap[a].messages[j].content = t

\* a store method was called in this step (lastOp carries the time of the call)
Called(op) == lastOp'.op = op /\ lastOp' /= lastOp

\* C1: a context that was deleted, cleared or evicted is never in the store again:
\* no step of a turn (in particular its detached save) puts it back.
C1_NoResurrection ==
    \A sid \in Sessions : store[sid] /= NoCtx => store[sid] \notin removed

\* C2: no update is lost: while the session of a started turn has not been
\* removed, the store never holds an older context than the turn's, and once the
\* turn is persisted the stored context has the turn's user and assistant messages.
C2_NoLostUpdate ==
    \A t \in Turns :
        (pc[t] /= "idle" /\ t \notin wiped) =>
            /\ store[session_id[t]] /= NoCtx => store[session_id[t]] >= ctx[t]
            /\ pc[t] = "done" =>
                  /\ store[session_id[t]] /= NoCtx
                  /\ TurnMessagesIn(store[session_id[t]], t)

\* C3: get_or_create is atomic: a caller gets the live entry as it is and nothing
\* is created, or, when there is no live entry, exactly one fresh empty context is
\* created, stored under the id and returned.
C3_GetOrCreateAtomic ==
    [][\A t \in Turns :
          (pc[t] = "idle" /\ pc'[t] = "start") =>
             LET sid == session_id'[t] IN
             IF Live(sid)
             THEN /\ ctx'[t] = store[sid]
                  /\ store' = store /\ heap' = heap /\ nctx' = nctx
             ELSE /\ nctx' = nctx + 1
                  /\ ctx'[t] = nctx'
                  /\ store' = [store EXCEPT ![sid] = nctx']
                  /\ heap' = [heap EXCEPT ![nctx'] =
                                [session_id |-> sid, messages |-> <<>>,
                                 selected_vehicle |-> NoVehicle,
                                 last_search_results |-> <<>>, last_action |-> "none",
                                 created_at |-> now, updated_at |-> now]]
      ]_vars

\* C3 witness: two turns are both just past get_or_create on one id and hold the
\* same, single context
C3_Witness ==
    /\ pc[1] = "start" /\ pc[2] = "start"
    /\ session_id[1] = session_id[2]
    /\ ctx[1] = ctx[2] /\ ctx[1] /= NoCtx
    /\ nctx = 1

\* C4: get on an entry older than the TTL returns none and removes the entry, and
\* an exists that follows returns false; get on an entry of age at most the TTL
\* (exactly the TTL included) returns it and leaves it in the store.
C4_GetExpiry ==
    [][/\ \A sid \in Sessions :
             (Called("get") /\ lastOp'.sid = sid /\ store[sid] /= NoCtx) =>
                IF Age(store[sid]) > ttl
                THEN lastOp'.ctx = NoCtx /\ store'[sid] = NoCtx
                ELSE lastOp'.ctx = store[sid] /\ store'[sid] = store[sid]
       /\ (/\ lastOp.op = "get" /\ lastOp.ctx = NoCtx
           /\ Called("exists") /\ lastOp'.sid = lastOp.sid) => ~lastOp'.flag
      ]_vars

\* C4 witness: a get has just evicted an expired entry
C4_Witness ==
    /\ lastOp.op = "get" /\ lastOp.flag /\ lastOp.ctx = NoCtx /\ lastOp.at = now
    /\ store[lastOp.sid] = NoCtx
    /\ \E a \in removed : heap[a].session_id = lastOp.sid /\ Age(a) > ttl

\* C5: get on an id that was never created returns none; once get_or_create has
\* stored an entry, exists returns true for as long as the entry's age is at most
\* the TTL: the entry leaves the store only by delete, by clear_all or when its age
\* exceeds the TTL, and the stored entry's updated_at never goes back.
C5_ExistsUntilExpiry ==
    [][/\ \A sid \in Sessions :
             (Called("get") /\ lastOp'.sid = sid /\ NeverCreated(sid)) => lastOp'.ctx = NoCtx
       /\ \A sid \in Sessions :
             (Called("get_or_create") /\ lastOp'.sid = sid) =>
                (store'[sid] = lastOp'.ctx /\ store'[sid] /= NoCtx /\ heap'[store'[sid]].updated_at <= now
                 /\ now - heap'[store'[sid]].updated_at <= ttl)
       /\ \A sid \in Sessions :
             (Called("exists") /\ lastOp'.sid = sid /\ Live(sid)) => lastOp'.flag
       /\ \A sid \in Sessions :
             (store[sid] /= NoCtx /\ store'[sid] = NoCtx) =>
                (lastOp'.op \in {"delete", "clear_all"} \/ Age(store[sid]) > ttl)
       /\ \A sid \in Sessions :
             (store[sid] /= NoCtx /\ store'[sid] /= NoCtx) =>
                heap'[store'[sid]].updated_at >= heap[store[sid]].updated_at
      ]_vars

\* C5 witness: exists has just returned true for an entry whose age is exactly the TTL
C5_Witness ==
    /\ lastOp.op = "exists" /\ lastOp.flag /\ lastOp.at = now
    /\ store[lastOp.sid] /= NoCtx
    /\ Age(store[lastOp.sid]) = ttl

\* C6: immediately after save(context) the store maps the context's session id to
\* that context, its updated_at is now and the entry is live, whatever was stored
\* before and whatever the context's updated_at was.
C6_SaveUpserts ==
    (lastOp.op = "save" /\ lastOp.at = now) =>
        /\ store[lastOp.sid] = lastOp.ctx
        /\ heap[lastOp.ctx].session_id = lastOp.sid
        /\ heap[lastOp.ctx].updated_at = now
        /\ Live(lastOp.sid)

\* C6 witness: a save has just put back a context that had expired and been
\* removed from the store
C6_Witness ==
    /\ lastOp.op = "save" /\ lastOp.at = now
    /\ lastOp.ctx \in removed /\ lastOp.ctx \in elapsed
    /\ store[lastOp.sid] = lastOp.ctx

\* C7: updated_at of every context never decreases, and every step that changes a
\* context (message append, vehicle selection, setting the search results, save)
\* leaves its updated_at equal to now.
C7_UpdatedAtMonotone ==
    [][\A a \in CtxIds :
          /\ heap'[a].updated_at >= heap[a].updated_at
          /\ heap'[a] /= heap[a] => heap'[a].updated_at = now'
      ]_vars

\* C7 witness: a context that got a message, search results, a selection and a
\* save, the last mutation after the clock advanced
C7_Witness ==
    /\ Len(heap[1].messages) > 0
    /\ heap[1].last_search_results /= <<>>
    /\ heap[1].selected_vehicle /= NoVehicle
    /\ store["s1"] = 1
    /\ now > heap[1].created_at
    /\ heap[1].updated_at = now

\* C8: after n appends the message list has min(n, MAX_MESSAGES) entries, at most
\* 20, and they are the most recent appended messages in their order.
C8_MessagesBounded ==
    \A a \in 1..nctx :
        LET n == Len(appended[a])
            k == IF n < 20 THEN n ELSE 20
        IN /\ Len(heap[a].messages) = k
           /\ \A i \in 1..k : heap[a].messages[i] = appended[a][n - k + i]

\* C8 witness: 22 appends, of both roles, were made and the list holds the last 20
C8_Witness ==
    /\ Len(appended[1]) = 22
    /\ AssistantAppends(1) = 2
    /\ Len(heap[1].messages) = 20
    /\ heap[1].messages[1].content = 3
    /\ heap[1].messages[20].content = 22

\* number of entries in the store whose age is at most the TTL
LiveCount == Cardinality({s \in Sessions : Live(s)})

\* number of entries in the store
StoredCount == Cardinality({s \in Sessions : store[s] /= NoCtx})

\* C9 (as claimed): clear_all returns the number of live sessions, a second
\* clear_all right after it returns 0, and after clear_all get returns none.
C9_ClearAllLiveCount ==
    [][/\ Called("clear_all") => (lastOp'.count = LiveCount /\ \A s \in Sessions : store'[s] = NoCtx)
       /\ (lastOp.op = "clear_all" /\ Called("clear_all")) => lastOp'.count = 0
       /\ (lastOp.op = "clear_all" /\ Called("get")) => lastOp'.ctx = NoCtx
      ]_vars

\* C9 (amended): clear_all returns the number of entries the store holds, expired
\* entries that were not yet evicted included; a second clear_all right after it
\* returns 0, and after clear_all get returns none for every id.
C9_ClearAllStoredCount ==
    [][/\ Called("clear_all") => (lastOp'.count = StoredCount /\ \A s \in Sessions : store'[s] = NoCtx)
       /\ (lastOp.op = "clear_all" /\ Called("clear_all")) => lastOp'.count = 0
       /\ (lastOp.op = "clear_all" /\ Called("get")) => lastOp'.ctx = NoCtx
      ]_vars

\* C9 witness: clear_all has just returned 2 for a store that held an expired entry
C9_Witness ==
    /\ lastOp.op = "clear_all" /\ lastOp.count = 2 /\ lastOp.at = now
    /\ \E a \in removed : Age(a) > ttl
    /\ \A s \in Sessions : store[s] = NoCtx

\* C10: the constructor fails, and makes no store, exactly when ttl_minutes <= 0;
\* the TTL of a constructed store is the one it was constructed with, in every
\* state that any sequence of its operations reaches.
C10_TTLFixed ==
    /\ (adapter = "ready") = (ttl_minutes > 0)
    /\ adapter = "ready" => ttl = ttl_minutes
    /\ adapter = "failed" =>
          (nctx = 0 /\ lastOp.op = "__init__" /\ \A s \in Sessions : store[s] = NoCtx)

\* C10 witness: a constructed store on which entries were created, expired and swept
C10_Witness ==
    /\ adapter = "ready" /\ ttl = ttl_minutes
    /\ lastOp.op = "cleanup_expired" /\ lastOp.count > 0

\* ------------------------------------------------ clarify guard properties

\* the guards have run
GuardsApplied == guarded /= NoDecision

EmptyContext(c) == c.selected_vehicle = NoVehicle /\ c.last_search_results = <<>>

NoStockId(d) == d.stock_id = None \/ d.stock_id = <<>>

\* the texts of Texts that hold one of the marker phrases, as typed or in capitals
MarkerTexts ==
    {<<"e", "l", " ", "m", "a", "s", " ", "b", "a", "r", "a", "t", "o">>,
     <<"E", "l", " ", "M", "Á", "S", " ", "B", "a", "r", "a", "t", "o">>,
     <<"q", "u", "i", "e", "r", "o", " ", "e", "s", "e">>,
     <<"E", "S", "E">>,
     <<"i", "n", "t", "e", "r", "e", "s", "e", "s">>,
     <<"l", "a", " ", "R", "o", "j", "a">>}

FinancingWithoutStockId == decision.action = "get_financing_options" /\ NoStockId(decision)

\* C11: for every raw user text, a get_financing_options decision with no
\* stock id applied to a context with neither a selected vehicle nor prior
\* search results is overridden to a clarify decision.
C11_FinancingEmptyContextClarifies ==
    (GuardsApplied /\ FinancingWithoutStockId /\ EmptyContext(heap[1]))
        => (guarded.action = "clarify" /\ guarded /= decision)

C11_Witness ==
    /\ GuardsApplied
    /\ FinancingWithoutStockId
    /\ EmptyContext(heap[1])
    /\ user_text = <<"f", "i", "n", "a", "n", "c", "i", "a", "r">>
    /\ guarded.action = "clarify"

\* C12 as stated: for every raw user text, a get_financing_options decision
\* that carries a stock id is returned unchanged by the guards on an empty
\* context.
C12_StockIdNeverOverridden ==
    (/\ GuardsApplied
     /\ decision.action = "get_financing_options"
     /\ ~NoStockId(decision)
     /\ EmptyContext(heap[1]))
        => guarded = decision

\* C12 amended: for every raw user text that holds none of the marker
\* phrases, a get_financing_options decision that carries a stock id is
\* returned unchanged by the guards on an empty context.
C12_StockIdPassesWithoutMarker ==
    (/\ GuardsApplied
     /\ decision.action = "get_financing_options"
     /\ ~NoStockId(decision)
     /\ EmptyContext(heap[1])
     /\ user_text \notin MarkerTexts)
        => guarded = decision

C12_Witness ==
    /\ GuardsApplied
    /\ decision.action = "get_financing_options"
    /\ decision.stock_id = <<"1">>
    /\ EmptyContext(heap[1])
    /\ user_text = <<"f", "i", "n", "a", "n", "c", "i", "a", "r">>
    /\ guarded = decision

\* C13: for every raw user text, a get_financing_options decision with no
\* stock id applied to a context that has prior search results and no
\* selected vehicle is overridden to the clarify decision that asks which of
\* the listed vehicles.
C13_FinancingUnselectedClarifies ==
    (/\ GuardsApplied
     /\ FinancingWithoutStockId
     /\ heap[1].last_search_results /= <<>>
     /\ heap[1].selected_vehicle = NoVehicle)
        => (/\ guarded.action = "clarify"
            /\ guarded.message = AskWhichListed
            /\ guarded /= decision)

C13_Witness ==
    /\ GuardsApplied
    /\ FinancingWithoutStockId
    /\ heap[1].last_search_results = <<1, 2>>
    /\ heap[1].selected_vehicle = NoVehicle
    /\ user_text \in MarkerTexts
    /\ guarded.message = AskWhichListed

\* the missing-field markers of a decision, as a set
MissingOf(d) ==
    IF d.missing_information = None THEN {}
    ELSE {d.missing_information[i] : i \in 1..Len(d.missing_information)}

\* C14: a text with a marker phrase on a context with no selected vehicle and
\* no prior search results overrides every decision the first rule did not
\* match to clarify with missing fields exactly {make, model}; on a context
\* with a selected vehicle or prior search results the marker phrases cause no
\* override: the decision comes back unchanged unless it is the financing
\* decision without stock id that the second rule overrides.
C14_MarkerNeedsEmptyContext ==
    (GuardsApplied /\ user_text \in MarkerTexts)
        => /\ (EmptyContext(heap[1]) /\ ~FinancingWithoutStockId)
                => (/\ guarded.action = "clarify"
                    /\ MissingOf(guarded) = {"make", "model"}
                    /\ guarded.message = AskWhichReference)
           /\ ~EmptyContext(heap[1])
                => \/ guarded = decision
                   \/ /\ FinancingWithoutStockId
                      /\ heap[1].selected_vehicle = NoVehicle
                      /\ guarded.message = AskWhichListed

C14_Witness ==
    /\ GuardsApplied
    /\ user_text = <<"E", "S", "E">>
    /\ EmptyContext(heap[1])
    /\ decision.action = "respond"
    /\ guarded.action = "clarify"
    /\ MissingOf(guarded) = {"make", "model"}

\* C15: when the decision is not a get_financing_options without stock id on
\* a context without selected vehicle, and the text has no marker phrase or
\* the context is not empty, the guards return the decision unchanged in every
\* field.
C15_OtherwiseUnchanged ==
    (/\ GuardsApplied
     /\ ~(FinancingWithoutStockId /\ heap[1].selected_vehicle = NoVehicle)
     /\ (user_text \notin MarkerTexts \/ ~EmptyContext(heap[1])))
        => guarded = decision

C15_Witness ==
    /\ GuardsApplied
    /\ FinancingWithoutStockId
    /\ heap[1].selected_vehicle = 1
    /\ user_text \in MarkerTexts
    /\ guarded = decision

\* C16: applying the guards leaves the context (messages, selected vehicle,
\* last search results, last action, updated_at), the session store and the
\* proposed decision as they were, whether or not the decision is overridden.
C16_GuardsSideEffectFree ==
    [][guarded' /= guarded
         => (heap' = heap /\ store' = store /\ decision' = decision)]_vars

C16_Witness ==
    /\ GuardsApplied
    /\ guarded /= decision
    /\ store["s1"] = 1
    /\ heap[1].last_action = "search_cars"
    /\ heap[1].last_search_results = <<1, 2>>

\* ----------------------------------------------- router and handler properties

\* route_decision has been called on the decision held in guarded
Routed == result /= NoDecision

Supplied(v) == v /= None /\ v /= <<>>

\* the rows whose make and model are the ones a decision asks for, compared
\* in lower case without surrounding blanks, and that pass its other filters
Requested(d) ==
    {v \in Rows :
        /\ Supplied(d.make) => v.make = lower(strip(d.make))
        /\ Supplied(d.model) => v.model = lower(strip(d.model))
        /\ d.year /= NoInt => v.year = d.year
        /\ d.price_max /= NoInt => v.price <= d.price_max}

\* the makes of the catalog that have the model
MakesOf(model) == {v.make : v \in {w \in Rows : w.model = lower(strip(model))}}

\* C17: route_decision maps each of the 7 actions to exactly one handler and
\* invokes exactly that handler, once; a decision whose action has no handler
\* fails with an error: nothing is returned and no handler runs.
C17_RouterDispatch ==
    Routed =>
        LET a == guarded.action
            t == result.ret.type
        IN /\ a = "search_cars" =>
                 /\ calls = <<"handle_search_cars">>
                 /\ \/ result.raised = "InventoryError" /\ t = "none"
                    \/ result.raised = "none" /\ t \in {"SearchCarsResult", "ClarifyResult", "ErrorResult"}
           /\ a = "get_car_details" =>
                 /\ calls = <<"handle_get_car_details">>
                 /\ result.raised = "none" /\ t \in {"GetCarDetailsResult", "ErrorResult"}
           /\ a = "get_financing_options" =>
                 /\ calls = <<"handle_get_financing_options">>
                 /\ result.raised = "none" /\ t \in {"FinancingOptionsResult", "ErrorResult"}
           /\ a = "get_kavak_info" =>
                 /\ calls = <<"handle_get_kavak_info">>
                 /\ result.raised = "none" /\ t \in {"KavakInfoResult", "ErrorResult"}
           /\ a = "respond" =>
                 /\ calls = <<"handle_respond">>
                 /\ result.raised = "none" /\ t \in {"ResponseResult", "ErrorResult"}
           /\ a = "clarify" =>
                 /\ calls = <<"handle_clarify">>
                 /\ result.raised = "none" /\ t = "ClarifyResult"
           /\ a = "out_of_scope" =>
                 /\ calls = <<"handle_out_of_scope">>
                 /\ result.raised = "none" /\ t = "OutOfScopeResult"
           /\ a = "unsupported" =>
                 /\ calls = <<>>
                 /\ result.raised = "ValueError" /\ t = "none"
           /\ Len(calls) <= 1

C17_Witness ==
    /\ Routed
    /\ guarded.action = "unsupported"
    /\ result.raised = "ValueError"
    /\ calls = <<>>

\* C18: a search_cars decision with a model that has two or more makes in
\* the catalog and no make never returns a result list: the handler returns a
\* clarification whose missing fields include make.
C18_AmbiguousModelClarifies ==
    (/\ Routed
     /\ guarded.action = "search_cars"
     /\ Supplied(guarded.model)
     /\ ~Supplied(guarded.make)
     /\ Cardinality(MakesOf(guarded.model)) >= 2)
        => /\ result.raised = "none"
           /\ result.ret.type = "ClarifyResult"
           /\ \E i \in 1..Len(result.ret.missing_fields) : result.ret.missing_fields[i] = "make"

C18_Witness ==
    /\ Routed
    /\ guarded.action = "search_cars"
    /\ guarded.model = <<"U", "n", "o">>
    /\ guarded.make = None
    /\ Cardinality(MakesOf(guarded.model)) = 2
    /\ result.ret.type = "ClarifyResult"
    /\ result.ret.missing_fields = <<"make">>

\* the search of the decision ran and found no vehicle
SearchFoundNothing ==
    /\ Routed
    /\ guarded.action = "search_cars"
    /\ ~LoadRaises
    /\ ~InvalidSearchParameters(guarded.make, guarded.model, guarded.year, NoInt, guarded.price_max)
    /\ ~(Supplied(guarded.model) /\ ~Supplied(guarded.make) /\ Cardinality(MakesOf(guarded.model)) >= 2)
    /\ Requested(guarded) = {}

\* a make of the catalog is a close match of the make asked for
MakeSuggestionExists ==
    /\ Supplied(guarded.make)
    /\ \E v \in Rows : IsCloseMatch(v.make, lower(strip(guarded.make)))

\* a model of the catalog (of the make asked for, when the catalog has that
\* make) is a close match of the model asked for
ModelSuggestionExists ==
    /\ Supplied(guarded.model)
    /\ LET pool == IF Supplied(guarded.make) /\ \E w \in Rows : w.make = lower(guarded.make)
                   THEN {w \in Rows : w.make = lower(strip(guarded.make))}
                   ELSE Rows
       IN \E v \in pool : IsCloseMatch(v.model, lower(strip(guarded.model)))

\* C19: a search with a make or model that finds no vehicle becomes a
\* clarification exactly when a make suggestion or a model suggestion exists;
\* when neither exists, or the decision has neither make nor model, the empty
\* result is returned as a search result with count 0, not as a clarification
\* or an error; and a search result never holds a vehicle of another make or
\* model than the requested ones.
C19_ZeroResultPolicy ==
    /\ SearchFoundNothing =>
          /\ result.raised = "none"
          /\ IF (Supplied(guarded.make) \/ Supplied(guarded.model))
                /\ (MakeSuggestionExists \/ ModelSuggestionExists)
             THEN result.ret.type = "ClarifyResult"
             ELSE /\ result.ret.type = "SearchCarsResult"
                  /\ result.ret.results.total_count = 0
                  /\ result.ret.results.results = <<>>
    /\ (Routed /\ guarded.action = "search_cars" /\ result.ret.type = "SearchCarsResult") =>
          /\ result.ret.results.total_count = Len(result.ret.results.results)
          /\ \A i \in 1..Len(result.ret.results.results) :
                \E v \in Requested(guarded) : v.stock_id = result.ret.results.results[i].stock_id

C19_Witness ==
    /\ SearchFoundNothing
    /\ guarded.make = <<"f", "i", "a">>
    /\ guarded.model = None
    /\ MakeSuggestionExists
    /\ result.ret.type = "ClarifyResult"

\* the row that has the stock id the decision carries, written in decimal
RowsWithStockId(d) ==
    {v \in Rows : v.stock_id \in 0..9 /\ d.stock_id = <<Alphabet[v.stock_id + 2]>>}

\* C20: get_car_details and get_financing_options return the error variant
\* when the decision has no stock id or no vehicle has that stock id, and
\* otherwise the full vehicle record, respectively exactly that vehicle's
\* price; respond returns the error variant exactly when the message is
\* missing, and the message otherwise.
C20_LookupAndRespondErrors ==
    Routed =>
        /\ guarded.action = "get_car_details" =>
              IF ~Supplied(guarded.stock_id) \/ RowsWithStockId(guarded) = {}
              THEN result.ret.type = "ErrorResult"
              ELSE /\ result.ret.type = "GetCarDetailsResult"
                   /\ \E v \in RowsWithStockId(guarded) :
                         /\ result.ret.car.stock_id = v.stock_id
                         /\ lower(result.ret.car.make) = v.make
                         /\ lower(result.ret.car.model) = v.model
                         /\ result.ret.car.year = v.year
                         /\ result.ret.car.km = v.km
                         /\ result.ret.car.price = v.price
        /\ guarded.action = "get_financing_options" =>
              IF ~Supplied(guarded.stock_id) \/ RowsWithStockId(guarded) = {}
              THEN result.ret.type = "ErrorResult"
              ELSE /\ result.ret.type = "FinancingOptionsResult"
                   /\ \E v \in RowsWithStockId(guarded) : result.ret.price = v.price
        /\ guarded.action = "respond" =>
              IF ~Supplied(guarded.message)
              THEN result.ret.type = "ErrorResult"
              ELSE result.ret.type = "ResponseResult" /\ result.ret.message = guarded.message

C20_Witness ==
    /\ Routed
    /\ guarded.action = "get_financing_options"
    /\ guarded.stock_id = <<"1">>
    /\ result.ret.type = "FinancingOptionsResult"
    /\ result.ret.price = 100

\* ------------------------------------------------ properties of one turn

\* process() has returned to its caller
TurnOver == returned /= NoReply

\* the context of the turn had no message, result or selection when the turn began
StartedEmpty == ctx[1] /= NoCtx /\ heap[ctx[1]].messages = appended[ctx[1]]

\* the reasoning backend decided respond with a non-empty message
DecidedRespond == decision.action = "respond" /\ Truthy(decision.message)

\* the reply carries the decision's message, and the context the user message
\* followed by that message, with last_action respond
RespondedVerbatim ==
    /\ returned = UserReply(decision.message, <<>>, TRUE)
    /\ heap[ctx[1]].messages = <<Message("user", user_text), Message("assistant", decision.message)>>
    /\ heap[ctx[1]].last_action = "respond"

\* C21 as stated: a turn on an empty context whose decision is respond with a
\* non-empty message, enrichment disabled, replies with that message verbatim,
\* success and no vehicles, and leaves the user message and the assistant
\* message in the context with last_action respond -- whatever the user text.
C21_RespondEndToEndAnyText ==
    (TurnOver /\ StartedEmpty /\ DecidedRespond /\ ~humanize) => RespondedVerbatim

\* C21: the same for a user text that holds none of the marker phrases of the
\* clarify guards (on an empty context a marker phrase makes the guards replace
\* the decision).
C21_RespondEndToEnd ==
    (TurnOver /\ StartedEmpty /\ DecidedRespond /\ ~humanize /\ ~needs_reference(lower(user_text)))
        => RespondedVerbatim

\* C21 witness: such a turn has returned
C21_Witness ==
    /\ TurnOver /\ StartedEmpty /\ DecidedRespond /\ ~humanize
    /\ ~needs_reference(lower(user_text))
    /\ returned.message = <<"O", "k">>
    /\ Len(heap[ctx[1]].messages) = 2

\* the methods of the reasoning backend that enrich a reply
EnrichMethods == {"humanize_response", "generate_financing_response", "generate_kavak_info_response"}

\* the handler returned the error variant
HandlerFailed == result /= NoDecision /\ result.raised = "none" /\ result.ret.type = "ErrorResult"

\* C22: when a handler returns the error variant, the reply of the turn (as
\* rendered, and as returned) has success false and the fixed apology as its
\* message, the error text is not in it, and no enrichment method of the
\* backend is called, with humanize on or off.
C22_ErrorReplyGeneric ==
    (HandlerFailed /\ pc[1] \in {"render", "commit", "returned"}) =>
        /\ reply[1] = UserReply(DEFAULT_ERROR_MESSAGE, <<>>, FALSE)
        /\ ~Contains(reply[1].message, result.ret.error)
        /\ \A i \in 1..Len(calls) : calls[i] \notin EnrichMethods
        /\ TurnOver => returned = reply[1]

\* C22 witness: a turn with humanize on has returned the apology for a lookup
\* that raised
C22_Witness ==
    /\ HandlerFailed /\ humanize /\ TurnOver
    /\ result.ret.error = Literal("InventoryError")
    /\ returned.message = DEFAULT_ERROR_MESSAGE

\* the except clauses of process() ran
Failed == pc[1] = "failed"

\* the step that raised and the except clause that caught it
FailedIn(step, clause) ==
    /\ Failed /\ Len(steps) >= 2
    /\ steps[Len(steps) - 1] = step /\ steps[Len(steps)] = clause

\* no text of a logged failure is in the message
HidesFailures(message) == \A i \in 1..Len(log) : ~Contains(message, log[i].error)

\* C23 as stated: every failure raised in a step of the turn is answered with
\* success false and one message that is the same for every kind of failure.
C23_OneMessageForAll ==
    Failed =>
        /\ TurnOver /\ ~returned.success
        /\ \A kind \in {"ValueError", "Exception"} : returned.message = caught(kind, <<>>).ret.message
        /\ HidesFailures(returned.message)

\* C23: every failure raised in a step of the turn is answered with success
\* false and one of two fixed messages, one for every ValueError and one for
\* every other failure, with nothing of the failure's text in it.
C23_TwoFixedMessages ==
    Failed =>
        /\ TurnOver
        /\ returned = UserReply(IF steps[Len(steps)] = "except ValueError"
                                THEN ValidationErrorMessage ELSE UnexpectedErrorMessage,
                                <<>>, FALSE)
        /\ HidesFailures(returned.message)
        /\ Len(log) > 0

\* C23 witness: the enrichment raised and the turn returned the message for
\* unexpected failures
C23_Witness ==
    /\ FailedIn("enrich", "except Exception")
    /\ returned.message = UnexpectedErrorMessage
    /\ \E i \in 1..Len(log) : log[i].error \in FailureTexts

\* the order of the steps of a turn
StepOrder == <<"start", "decide", "guard", "route", "render", "enrich", "commit", "persist">>

Rank(step) == CHOOSE i \in 1..Len(StepOrder) : StepOrder[i] = step

IsStep(step) == \E i \in 1..Len(StepOrder) : StepOrder[i] = step

\* C24: the steps of a turn run in the order start, decide, guard, route,
\* render, enrich (optional), commit, persist: each step that runs is the
\* successor of the one before (commit may follow render directly), none runs
\* twice, and only the except clause can end the sequence early.
C24_StepsInOrder ==
    \A i \in 1..Len(steps) :
        /\ i = 1 => steps[i] = "start"
        /\ (i > 1 /\ IsStep(steps[i])) =>
              /\ IsStep(steps[i - 1])
              /\ \/ Rank(steps[i]) = Rank(steps[i - 1]) + 1
                 \/ steps[i - 1] = "render" /\ steps[i] = "commit"
        /\ ~IsStep(steps[i]) => i = Len(steps)

\* C24 witness: a turn ran all the eight steps
C24_Witness == steps = StepOrder /\ TurnOver

\* the context stored for the session is the turn's and holds the turn's
\* assistant message, last action and, when the reply has vehicles, its results
ReflectsTurn ==
    /\ store["s1"] = ctx[1]
    /\ heap[ctx[1]].messages /= <<>>
    /\ heap[ctx[1]].messages[Len(heap[ctx[1]].messages)].role = "assistant"
    /\ heap[ctx[1]].messages[Len(heap[ctx[1]].messages)].content = returned.message
    /\ heap[ctx[1]].last_action = guarded.action
    /\ returned.vehicles /= <<>> =>
          heap[ctx[1]].last_search_results = [i \in 1..Len(returned.vehicles) |-> returned.vehicles[i].stock_id]

\* C25: from the moment the persist task is created, whether it is pending,
\* has saved or has failed, the context stored under the session id holds the
\* turn's assistant message, last action and (when the reply has vehicles)
\* the new last results.
C25_CommitBeforePersist == loop.persist /= "none" => ReflectsTurn

\* C25 witness: the save of a search turn failed
C25_Witness ==
    /\ loop.persist = "logged"
    /\ returned.vehicles /= <<>>
    /\ guarded.action = "search_cars"

\* C26: process returns its reply while the save has not run; a save that
\* fails writes a log record and changes neither the reply that was returned
\* nor the position of process, and what process returned never changes.
C26_FireAndForget ==
    [][/\ (returned = NoReply /\ returned' /= NoReply) => loop'.persist \in {"none", "pending"}
       /\ returned /= NoReply => returned' = returned
       /\ (loop.persist = "pending" /\ loop'.persist = "logged") =>
             /\ returned.success = reply[1].success /\ returned = reply[1]
             /\ reply' = reply /\ pc' = pc
             /\ Len(log') = Len(log) + 1
             /\ log'[Len(log')].event = "Error persistiendo contexto (fire-and-forget)"
      ]_vars

\* C26 witness: the reply was returned with success and the save failed afterwards
C26_Witness ==
    /\ loop.persist = "logged"
    /\ returned.success
    /\ pc[1] = "returned"

\* C27: a persist task that was created is never dropped: its save completes
\* or its failure is logged, also under asyncio.run, which stops the loop when
\* process has returned.
C27_PersistNeverDropped ==
    [](loop.persist = "pending" => <>(loop.persist \in {"saved", "logged"}))

\* C27 witness: asyncio.run has stopped its loop and the save has run
C27_Witness ==
    /\ loop.runner = "asyncio.run"
    /\ ~loop.running
    /\ loop.persist = "saved"

\* the reply as the presenter rendered it
PlainReply == render_reply(result.ret).ret

\* the enrichment was not attempted, or it called no backend method, or it raised
EnrichmentSkipped == pc[1] = "returned" /\ \A i \in 1..Len(calls) : calls[i] \notin EnrichMethods

EnrichmentFailed == FailedIn("enrich", "except Exception") \/ FailedIn("enrich", "except ValueError")

\* C28: when the enrichment is skipped or fails, the turn returns the plain
\* rendered reply (message, vehicles, success true) and commits it to the context.
C28_EnrichmentOptional ==
    ((EnrichmentSkipped \/ EnrichmentFailed) /\ PlainReply.success) =>
        /\ returned = PlainReply
        /\ heap[ctx[1]].messages[Len(heap[ctx[1]].messages)] = Message("assistant", PlainReply.message)
        /\ heap[ctx[1]].last_action = guarded.action

\* ------------------------------------------------ the catalog called directly

\* a row of the CSV file as csv.DictReader yields it: every field a str
CsvRow(stock_id, make, model, year, km, price) ==
    [stock_id |-> stock_id, make |-> make, model |-> model, year |-> year, km |-> km, price |-> price]

\* int(row[...]) and float(row["price"]) return; prices are whole numbers here
RowParses(row) ==
    /\ ParsesAsInt(row.stock_id)
    /\ ParsesAsInt(row.year)
    /\ ParsesAsInt(row.km)
    /\ ParsesAsInt(row.price)

\* the vehicle the row loop appends: make and model stripped and lowercased
ParsedRow(row) ==
    VehicleRow(DigitsValue(strip(row.stock_id)), lower(strip(row.make)), lower(strip(row.model)),
               DigitsValue(strip(row.year)), DigitsValue(strip(row.km)), DigitsValue(strip(row.price)))

\* _load_catalog_data() leaving out the rows that do not parse
load_catalog_data_skips_rows(file) ==
    IF ~file.exists THEN [raised |-> "CatalogNotFoundError", vehicles |-> <<>>]
    ELSE IF \A i \in 1..Len(file.rows) : ~RowParses(file.rows[i])
    THEN [raised |-> "CatalogLoadError", vehicles |-> <<>>]
    ELSE [raised |-> "none",
          vehicles |-> LET good == SelectSeq(file.rows, RowParses)
                       IN [i \in 1..Len(good) |-> ParsedRow(good[i])]]

\* _load_catalog_data() on a file: rows are the data rows under the header
load_catalog_data(file) ==
    IF ~file.exists THEN [raised |-> "CatalogNotFoundError", vehicles |-> <<>>]
    ELSE IF \E i \in 1..Len(file.rows) : ~RowParses(file.rows[i])
    THEN [raised |-> "CatalogLoadError", vehicles |-> <<>>]
    ELSE IF file.rows = <<>> THEN [raised |-> "CatalogLoadError", vehicles |-> <<>>]
    ELSE [raised |-> "none", vehicles |-> [i \in 1..Len(file.rows) |-> ParsedRow(file.rows[i])]]

FiatUno == CsvRow(<<" ", "1">>, <<" ", "F", "i", "a", "t", " ">>, <<"U", "n", "o">>,
                  <<"2", "0", "1", "9">>, <<"1", "0">>, <<"1", "0", "0">>)
SeatUno == CsvRow(<<"2">>, <<"S", "E", "A", "T">>, <<"u", "n", "o">>,
                  <<"2", "0", "2", "0">>, <<"2", "0">>, <<"1", "2", "0">>)
SeatLeon == CsvRow(<<"3">>, <<"s", "e", "a", "t">>, <<"L", "e", "o", "n">>,
                   <<"2", "0", "2", "0">>, <<"3", "0">>, <<"1", "5", "0">>)
\* a second row carrying stock id 1
SeatIbiza == CsvRow(<<"1">>, <<"S", "e", "a", "t">>, <<"I", "b", "i", "z", "a">>,
                    <<"2", "0", "2", "1">>, <<"5">>, <<"9", "0">>)
\* a row whose price is no number
Unpriced == CsvRow(<<"4">>, <<"s", "e", "a", "t">>, <<"l", "e", "o", "n">>,
                   <<"2", "0", "2", "0">>, <<"3", "0">>, <<"a", "b", "c">>)

\* catalog files: stock ids unique, one stock id on two rows, a row that does
\* not parse, a header without rows, and no file
CsvFiles ==
    {[exists |-> TRUE, rows |-> <<FiatUno, SeatUno, SeatLeon>>],
     [exists |-> TRUE, rows |-> <<FiatUno, SeatUno, SeatLeon, SeatIbiza>>],
     [exists |-> TRUE, rows |-> <<FiatUno, Unpriced>>],
     [exists |-> TRUE, rows |-> <<>>],
     [exists |-> FALSE, rows |-> <<>>]}

\* the arguments search_vehicles is called with
SearchMakes == {None, <<"S", "e", "a", "t">>, <<" ", "f", "i", "a", "t">>, <<" ">>}
SearchModels == {None, <<"U", "N", "O">>}
SearchYears == {NoInt, 2020, CurrentYear + 1}
SearchKms == {NoInt, 20, 0 - 5}
SearchPrices == {NoInt, 120, 50}

SearchArgs(make, model, year, km, price) ==
    [make |-> make, model |-> model, year |-> year, km |-> km, price |-> price]

\* one call of the catalog with what it returned
Call(name, args, out) == [name |-> name, args |-> args, out |-> out]

Search(a) == Call("search_vehicles", a, search_vehicles(a.make, a.model, a.year, a.km, a.price))

\* min(v.price for v in results)
MinPrice(results) ==
    CHOOSE p \in {results[i].price : i \in 1..Len(results)} :
        \A i \in 1..Len(results) : p <= results[i].price

InitCatalog ==
    /\ ttl_minutes = 1
    /\ adapter = LocalStorageAdapter(ttl_minutes).adapter
    /\ ttl = LocalStorageAdapter(ttl_minutes).ttl
    /\ now = 0
    /\ store = [s \in Sessions |-> NoCtx]
    /\ heap = [a \in CtxIds |-> Unallocated]
    /\ nctx = 0
    /\ pc = [t \in Turns |-> "idle"]
    /\ session_id = [t \in Turns |-> NoSession]
    /\ ctx = [t \in Turns |-> NoCtx]
    /\ reply = [t \in Turns |-> [message |-> 0, vehicles |-> <<>>, success |-> FALSE, action |-> "none"]]
    /\ lastOp = Op("__init__", NoSession, NoCtx, TRUE, 0)
    /\ removed = {}
    /\ wiped = {}
    /\ elapsed = {}
    /\ appended = [a \in CtxIds |-> <<>>]
    /\ user_text = <<>>
    /\ decision = NoDecision
    /\ guarded = NoDecision
    /\ \E file \in CsvFiles : catalog = load_catalog_data(file).vehicles
    /\ kavak_info = None
    /\ NoCatalogIO
    /\ result = NoDecision
    /\ calls = <<>>
    /\ NotRun

catalogVars == <<ttl_minutes, adapter, ttl, now, store, heap, nctx, pc, session_id, ctx, reply,
                 lastOp, ghostVars, user_text, decision, guarded, catalog, kavak_info, ioVars, result, runVars>>

\* search_vehicles(make, model, year, km, price)
SearchVehicles ==
    /\ calls = <<>>
    /\ \E make \in SearchMakes, model \in SearchModels, year \in SearchYears,
          km \in SearchKms, price \in SearchPrices :
          calls' = <<Search(SearchArgs(make, model, year, km, price))>>
    /\ UNCHANGED catalogVars

\* get_vehicle_details(v.stock_id) for a vehicle v the search returned
GetVehicleDetails ==
    /\ Len(calls) = 1
    /\ ~calls[1].out.raised
    /\ \E i \in 1..Len(calls[1].out.results) :
          calls' = Append(calls,
                          Call("get_vehicle_details",
                               [stock_id |-> calls[1].out.results[i].stock_id, of |-> i],
                               get_vehicle_details(str(calls[1].out.results[i].stock_id))))
    /\ UNCHANGED catalogVars

\* the search again, its price the minimum price of the results it returned
SearchAtMinimumPrice ==
    /\ Len(calls) = 1
    /\ ~calls[1].out.raised
    /\ calls[1].out.results /= <<>>
    /\ calls' = Append(calls,
                       Search([calls[1].args EXCEPT !.price = MinPrice(calls[1].out.results)]))
    /\ UNCHANGED catalogVars

NextCatalog == SearchVehicles \/ GetVehicleDetails \/ SearchAtMinimumPrice

SpecCatalog == InitCatalog /\ [][NextCatalog]_vars

\* the normalized form of a make or model
Normalized(s) == lower(strip(s))

\* the vehicle satisfies every filter that was supplied
Satisfies(v, a) ==
    /\ a.make /= None => v.make = Normalized(a.make)
    /\ a.model /= None => v.model = Normalized(a.model)
    /\ a.year /= NoInt => v.year = a.year
    /\ a.km /= NoInt => v.km <= a.km
    /\ a.price /= NoInt => v.price <= a.price

Matching(a) == {i \in 1..Len(catalog) : Satisfies(catalog[i], a)}

\* the k-th smallest element of a set of positions
NthOf(S, k) == CHOOSE i \in S : Cardinality({j \in S : j <= i}) = k

\* the search returned exactly the matching vehicles, in load order
ExactlyTheMatches(c) ==
    /\ Len(c.out.results) = Cardinality(Matching(c.args))
    /\ \A k \in 1..Len(c.out.results) :
          c.out.results[k] = VehicleSearchResult(catalog[NthOf(Matching(c.args), k)])
    /\ c.out.total_count = Len(c.out.results)

\* the search at the minimum price returned a non-empty part of the first results
NonEmptySubset(c, first) ==
    /\ ~c.out.raised
    /\ c.out.results /= <<>>
    /\ \A k \in 1..Len(c.out.results) :
          /\ \E i \in 1..Len(first.out.results) : first.out.results[i] = c.out.results[k]
          /\ c.out.results[k].price <= c.args.price

SearchCalls == {n \in 1..Len(calls) : calls[n].name = "search_vehicles"}

\* C29: a search with valid criteria on a loaded dataset returns exactly the
\* vehicles that satisfy every supplied filter (make and model normalized and
\* equal, year equal, km and price at most the ceiling), in load order, with
\* total_count the length of the list; it raises only for invalid criteria or
\* an unloadable catalog, never for an empty match set; and the search at the
\* minimum price of a non-empty result set returns a non-empty subset of it.
C29_SearchExact ==
    \A n \in SearchCalls :
        /\ calls[n].out.raised <=>
              (LoadRaises \/ InvalidSearchParameters(calls[n].args.make, calls[n].args.model,
                                                     calls[n].args.year, calls[n].args.km,
                                                     calls[n].args.price))
        /\ ~calls[n].out.raised => ExactlyTheMatches(calls[n])
        /\ n = 2 => NonEmptySubset(calls[n], calls[1])

\* C29 witness: a search by make and km found two vehicles, and the search at
\* their minimum price found one of them
C29_Witness ==
    /\ Len(calls) = 2
    /\ calls[2].name = "search_vehicles"
    /\ calls[1].args.make /= None /\ calls[1].args.km /= NoInt /\ calls[1].args.price = NoInt
    /\ Len(calls[1].out.results) = 2
    /\ Len(calls[2].out.results) = 1

\* C29 witness of the empty result: valid criteria matched no vehicle
C29_EmptyResult ==
    /\ Len(calls) = 1
    /\ ~calls[1].out.raised
    /\ calls[1].out.results = <<>>
    /\ calls[1].out.total_count = 0

\* C30: every vehicle a search returned is fetched by its stock id without
\* error, and the fetched vehicle equals the one the search returned in every
\* field.
C30_RoundTrip ==
    \A n \in 1..Len(calls) :
        calls[n].name = "get_vehicle_details" =>
            /\ ~calls[n].out.raised
            /\ calls[n].out.car = calls[1].out.results[calls[n].args.of]

\* ------------------------------------------------ the cache of the catalog

MaxCalls == 3

\* the versions of the catalog file the storage can hold
FileVersions == {"absent", "three rows", "repeated stock id", "malformed row"}

\* file_storage.exists / read_text of a version of the file
Stored(version) ==
    CASE version = "three rows" -> [exists |-> TRUE, rows |-> <<FiatUno, SeatUno, SeatLeon>>]
      [] version = "repeated stock id" ->
            [exists |-> TRUE, rows |-> <<FiatUno, SeatUno, SeatLeon, SeatIbiza>>]
      [] version = "malformed row" -> [exists |-> TRUE, rows |-> <<FiatUno, Unpriced>>]
      [] OTHER -> NoFile

\* what one call of the cached _load_catalog_data() does: the cache after it,
\* and whether file_storage.read_text ran
Loaded(raised, vehicles, cache, read) ==
    [raised |-> raised, vehicles |-> vehicles, cache |-> cache, read |-> read]

\* lru_cache keeping what a failed call produced
cached_load_keeps_failure(cache, file) ==
    IF cache.hit THEN Loaded("none", cache.vehicles, cache, FALSE)
    ELSE Loaded(load_catalog_data(file).raised, load_catalog_data(file).vehicles,
                [hit |-> TRUE, vehicles |-> load_catalog_data(file).vehicles], file.exists)

\* @lru_cache(maxsize=1) around _load_catalog_data: a return value is cached,
\* an exception is not
cached_load(cache, file) ==
    IF cache.hit THEN Loaded("none", cache.vehicles, cache, FALSE)
    ELSE Loaded(load_catalog_data(file).raised, load_catalog_data(file).vehicles,
                IF load_catalog_data(file).raised = "none"
                THEN [hit |-> TRUE, vehicles |-> load_catalog_data(file).vehicles]
                ELSE cache,
                file.exists)

Request(name, args) == [name |-> name, args |-> args]

\* the calls of the catalog's operations
Requests ==
    {Request("search_vehicles", SearchArgs(make, None, NoInt, NoInt, NoInt)) :
        make \in {<<"S", "e", "a", "t">>, <<" ">>}}
    \cup {Request("get_available_makes", None)}
    \cup {Request("get_available_models", None)}
    \cup {Request("get_makes_for_model", model) : model \in {<<>>, <<"U", "n", "o">>}}
    \cup {Request("get_vehicle_details", stock_id) : stock_id \in {<<"3">>, <<"x">>}}

\* the call gets as far as _load_catalog_data()
Reaches(q) ==
    CASE q.name = "search_vehicles" ->
            ~InvalidSearchParameters(q.args.make, q.args.model, q.args.year, q.args.km, q.args.price)
      [] q.name = "get_makes_for_model" -> Truthy(q.args)
      [] q.name = "get_vehicle_details" -> ParsesAsInt(q.args)
      [] OTHER -> TRUE

\* what a call that does not reach the load raises
Rejects(q) ==
    CASE q.name = "search_vehicles" -> "InvalidSearchParametersError"
      [] q.name = "get_vehicle_details" -> "InventoryError"
      [] OTHER -> "none"

\* what the call raises once the catalog is loaded
RaisesLoaded(q) ==
    IF q.name = "get_vehicle_details" /\ get_vehicle_details(q.args).raised
    THEN "InventoryError" ELSE "none"

\* what the call returns, on the catalog that was loaded for it
Returns(q) ==
    CASE q.name = "search_vehicles" ->
            search_vehicles(q.args.make, q.args.model, q.args.year, q.args.km, q.args.price).results
      [] q.name = "get_available_makes" -> get_available_makes
      [] q.name = "get_available_models" -> get_available_models(q.args)
      [] q.name = "get_makes_for_model" -> get_makes_for_model(q.args).ret
      [] q.name = "get_vehicle_details" ->
            IF get_vehicle_details(q.args).raised THEN <<>> ELSE <<get_vehicle_details(q.args).car>>

\* one call as the history keeps it: the file and the cache it found, whether
\* it reached the load and read the file, and what it raised or returned
Served(q, reached, read, raised, out) ==
    [name |-> q.name, args |-> q.args, file |-> csv_file, cached |-> lru_cache.hit,
     reached |-> reached, read |-> read, raised |-> raised, dataset |-> catalog, out |-> out]

InitCache ==
    /\ ttl_minutes = 1
    /\ adapter = LocalStorageAdapter(ttl_minutes).adapter
    /\ ttl = LocalStorageAdapter(ttl_minutes).ttl
    /\ now = 0
    /\ store = [s \in Sessions |-> NoCtx]
    /\ heap = [a \in CtxIds |-> Unallocated]
    /\ nctx = 0
    /\ pc = [t \in Turns |-> "idle"]
    /\ session_id = [t \in Turns |-> NoSession]
    /\ ctx = [t \in Turns |-> NoCtx]
    /\ reply = [t \in Turns |-> [message |-> 0, vehicles |-> <<>>, success |-> FALSE, action |-> "none"]]
    /\ lastOp = Op("__init__", NoSession, NoCtx, TRUE, 0)
    /\ removed = {}
    /\ wiped = {}
    /\ elapsed = {}
    /\ appended = [a \in CtxIds |-> <<>>]
    /\ user_text = <<>>
    /\ decision = NoDecision
    /\ guarded = NoDecision
    /\ kavak_info = None
    /\ csv_file \in FileVersions
    /\ catalog = cached_load(NoCache, Stored(csv_file)).vehicles
    /\ lru_cache = NoCache
    /\ result = NoDecision
    /\ calls = <<>>
    /\ NotRun

cacheVars == <<ttl_minutes, adapter, ttl, now, store, heap, nctx, pc, session_id, ctx, reply,
               lastOp, ghostVars, user_text, decision, guarded, kavak_info, result, runVars>>

\* the call q with l what the cached load did for it; catalog is what
\* _load_catalog_data() returns to a call made now
Serves(q, l) ==
    /\ lru_cache' = l.cache
    /\ catalog' = cached_load(l.cache, Stored(csv_file)).vehicles
    /\ calls' = Append(calls,
          IF l.raised /= "none"
          THEN Served(q, TRUE, l.read, l.raised, <<>>)
          ELSE Served(q, TRUE, l.read, RaisesLoaded(q), Returns(q)))

\* one of the catalog's operations is called
CatalogOperation ==
    /\ Len(calls) < MaxCalls
    /\ \E q \in Requests, l \in {cached_load(lru_cache, Stored(csv_file))} :
          IF Reaches(q)
          THEN Serves(q, l)
          ELSE /\ UNCHANGED <<lru_cache, catalog>>
               /\ calls' = Append(calls, Served(q, FALSE, FALSE, Rejects(q), <<>>))
    /\ UNCHANGED <<cacheVars, csv_file>>

\* clear_catalog_cache()
ClearCatalogCache ==
    /\ Len(calls) < MaxCalls
    /\ lru_cache' = NoCache
    /\ catalog' = cached_load(NoCache, Stored(csv_file)).vehicles
    /\ UNCHANGED <<cacheVars, csv_file>>
    /\ calls' = Append(calls, Served(Request("clear_catalog_cache", None), FALSE, FALSE, "none", <<>>))

\* the file in the storage is replaced or removed
ReplaceFile ==
    /\ Len(calls) \in 1..(MaxCalls - 1)
    /\ csv_file' \in FileVersions \ {csv_file}
    /\ catalog' = cached_load(lru_cache, Stored(csv_file')).vehicles
    /\ UNCHANGED <<cacheVars, lru_cache, calls>>

NextCache == CatalogOperation \/ ClearCatalogCache \/ ReplaceFile

SpecCache == InitCache /\ [][NextCache]_vars

\* the calls of the history that are operations of the catalog
Operations == {n \in 1..Len(calls) : calls[n].name /= "clear_catalog_cache"}

\* the call found nothing cached and no file
DatasetAbsent(c) == ~c.cached /\ ~Stored(c.file).exists

\* the call found nothing cached and a file with a row that does not parse
DatasetMalformed(c) ==
    /\ ~c.cached
    /\ Stored(c.file).exists
    /\ \E i \in 1..Len(Stored(c.file).rows) : ~RowParses(Stored(c.file).rows[i])

\* every row of a version of the file, parsed
WholeFile(version) == [i \in 1..Len(Stored(version).rows) |-> ParsedRow(Stored(version).rows[i])]

\* a call that answered did so from every row of a file all of whose rows parse
AnswersFromWholeFile(c) ==
    (c.reached /\ c.raised = "none") =>
        \E version \in FileVersions :
            /\ \A i \in 1..Len(Stored(version).rows) : RowParses(Stored(version).rows[i])
            /\ c.dataset = WholeFile(version)

\* a malformed row fails the load with CatalogLoadError and nothing is returned
MalformedIsFatal(c) ==
    (c.reached /\ DatasetMalformed(c)) => c.raised = "CatalogLoadError" /\ c.out = <<>>

\* C31 as stated: with the dataset absent every call of a catalog operation
\* raises CatalogNotFoundError; a malformed row fails the load with
\* CatalogLoadError and no call answers from the rows that parsed.
C31_AbsentFailsEveryCall ==
    \A n \in Operations :
        /\ DatasetAbsent(calls[n]) => calls[n].raised = "CatalogNotFoundError"
        /\ MalformedIsFatal(calls[n])
        /\ AnswersFromWholeFile(calls[n])

\* C31: with the dataset absent every call of a catalog operation that gets as
\* far as the load (its arguments are accepted) raises CatalogNotFoundError; a
\* malformed row fails the load with CatalogLoadError and no call answers from
\* the rows that parsed.
C31_LoadAllOrNothing ==
    \A n \in Operations :
        /\ (calls[n].reached /\ DatasetAbsent(calls[n])) => calls[n].raised = "CatalogNotFoundError"
        /\ MalformedIsFatal(calls[n])
        /\ AnswersFromWholeFile(calls[n])

\* C31 witness: a lookup failed on the absent file, then a search on the file
\* with the malformed row, then the makes were listed from a whole file
C31_Witness ==
    /\ Len(calls) = 3
    /\ calls[1].name = "get_vehicle_details" /\ calls[1].raised = "CatalogNotFoundError"
    /\ calls[2].name = "search_vehicles" /\ calls[2].raised = "CatalogLoadError"
    /\ calls[3].name = "get_available_makes" /\ calls[3].raised = "none"
    /\ calls[3].out /= <<>>

LoadErrors == {"CatalogNotFoundError", "CatalogLoadError"}

\* call n loaded the dataset or answered from the cache
LoadSucceeded(n) == calls[n].reached /\ calls[n].raised \notin LoadErrors

\* call n ran the load and it raised
LoadFailed(n) == calls[n].reached /\ calls[n].raised \in LoadErrors

\* no clear_catalog_cache() between calls n and m
NoClearBetween(n, m) == \A k \in (n + 1)..(m - 1) : calls[k].name /= "clear_catalog_cache"

\* call m ran the body of _load_catalog_data and read the file once if there is one
LoadsAgain(m) ==
    /\ calls[m].reached
    /\ ~calls[m].cached
    /\ calls[m].read = Stored(calls[m].file).exists

\* after a successful load and until a clear, no call reads the file and
\* every call that consults the dataset finds the one that was loaded
CachedUntilCleared ==
    \A n, m \in Operations :
        (n < m /\ LoadSucceeded(n) /\ NoClearBetween(n, m)) =>
            /\ ~calls[m].read
            /\ calls[m].reached =>
                  /\ calls[m].cached
                  /\ calls[m].dataset = calls[n].dataset
                  /\ calls[m].raised \notin LoadErrors

\* call m is an operation that follows a clear or a failed load directly
FollowsClearOrFailure(m) ==
    /\ m \in Operations
    /\ m > 1
    /\ calls[m - 1].name = "clear_catalog_cache" \/ LoadFailed(m - 1)

\* C32 as stated: the dataset is cached from the first successful load until
\* a clear; the operation that follows a clear, or a load that failed, runs
\* the load again, whatever the operation.
C32_NextCallLoads ==
    /\ CachedUntilCleared
    /\ \A m \in 1..Len(calls) : FollowsClearOrFailure(m) => LoadsAgain(m)

\* C32: the dataset is cached from the first successful load until a clear: no
\* later call reads the file and all answer from that dataset; the operation
\* that follows a clear, or a load that failed, runs the load again (reading
\* the file once) when it gets as far as the load.
C32_LoadOnceUntilCleared ==
    /\ CachedUntilCleared
    /\ \A m \in 1..Len(calls) : (FollowsClearOrFailure(m) /\ calls[m].reached) => LoadsAgain(m)

\* C32 witness: a search loaded the file, the file was replaced and the next
\* call answered from the cache; after the clear the third call read the new file
C32_Witness ==
    /\ Len(calls) = 3
    /\ calls[1].name = "search_vehicles" /\ calls[1].read /\ calls[1].raised = "none"
    /\ calls[2].name = "clear_catalog_cache"
    /\ calls[3].name = "get_available_makes" /\ calls[3].read
    /\ calls[3].file /= calls[1].file
    /\ calls[3].dataset /= calls[1].dataset

\* C32 witness of the cache outliving the file: the second call answered from
\* the dataset of the first although the file had been replaced
C32_ServedFromCache ==
    /\ Len(calls) >= 2
    /\ LoadSucceeded(1) /\ calls[1].read
    /\ calls[2].name = "get_available_makes" /\ calls[2].cached /\ ~calls[2].read
    /\ calls[2].file /= calls[1].file
    /\ calls[2].dataset = calls[1].dataset

\* ------------------------------------------------ the transport's formatting

\* the dict a transport returns to Lambda
Response(statusCode, headers, body) == [statusCode |-> statusCode, headers |-> headers, body |-> body]

NoResponse == Response(0, "none", <<>>)

\* create_fallback_response(error_msg, status_code)
create_fallback_response(error_msg, status_code) ==
    Response(status_code, "Content-Type: application/json",
             Literal("{\"error\": \"") \o error_msg \o Literal("\"}"))

\* what a formatting call did: what it raised or returned, the transport
\* methods it called and the records it logged
Formatted(raised, ret, invoked, logged) ==
    [raised |-> raised, ret |-> ret, invoked |-> invoked, log |-> logged]

\* TwilioMessagingAdapter.send_message(message): ValueError for an empty
\* message, RuntimeError when the TwiML cannot be built
send_message(message, fault) ==
    IF message = <<>> THEN [raised |-> "ValueError", ret |-> <<>>]
    ELSE IF fault /= "none" THEN [raised |-> fault, ret |-> <<>>]
    ELSE [raised |-> "none",
          ret |-> Literal("<Response><Message>") \o message \o Literal("</Message></Response>")]

\* transport_handler.format_response(reply) of the two transports
format_response(transport, r, fault) ==
    IF transport = "twilio"
    THEN [raised |-> send_message(r.message, fault).raised,
          ret |-> Response(200, "Content-Type: text/xml", send_message(r.message, fault).ret)]
    ELSE [raised |-> fault,
          ret |-> Response(200, "cors_headers",
                           Literal("{\"message\": \"") \o r.message \o Literal("\", \"success\": ")
                           \o Literal(IF r.success THEN "true" ELSE "false") \o Literal("}"))]

\* transport_handler.format_error(error, status_code): Twilio always answers 200
format_error(transport, error, status_code, fault) ==
    IF transport = "twilio"
    THEN [raised |-> send_message(Literal("Lo siento, ") \o error
                                  \o Literal(". Por favor, intenta más tarde."), fault).raised,
          ret |-> Response(200, "Content-Type: text/xml",
                           send_message(Literal("Lo siento, ") \o error
                                        \o Literal(". Por favor, intenta más tarde."), fault).ret)]
    ELSE [raised |-> fault,
          ret |-> Response(status_code, "cors_headers",
                           Literal("{\"error\": \"") \o error \o Literal("\"}"))]

\* safe_format_error(transport_handler, error_msg, status_code, original_error)
safe_format_error(transport, error_msg, status_code, fault) ==
    IF format_error(transport, error_msg, status_code, fault).raised = "none"
    THEN Formatted("none", format_error(transport, error_msg, status_code, fault).ret,
                   <<"format_error">>, <<>>)
    ELSE Formatted("none", create_fallback_response(error_msg, status_code), <<"format_error">>,
                   <<LogRecord("Error formateando respuesta de error",
                               Literal(format_error(transport, error_msg, status_code, fault).raised))>>)

\* what safe_format_response does once format_response has raised
Recovered(raised, safe) ==
    Formatted(safe.raised, safe.ret, <<"format_response">> \o safe.invoked,
              <<LogRecord(IF raised \in {"ValueError", "RuntimeError"}
                          THEN "Error formateando respuesta"
                          ELSE "Error inesperado formateando respuesta",
                          Literal(raised))>> \o safe.log)

\* safe_format_response catching ValueError and RuntimeError only
safe_format_response_narrow(transport, r, fault, error_fault) ==
    IF format_response(transport, r, fault).raised = "none"
    THEN Formatted("none", format_response(transport, r, fault).ret, <<"format_response">>, <<>>)
    ELSE IF format_response(transport, r, fault).raised \in {"ValueError", "RuntimeError"}
    THEN Recovered(format_response(transport, r, fault).raised,
                   safe_format_error(transport, Literal("Error generando respuesta"), 500, error_fault))
    ELSE Formatted(format_response(transport, r, fault).raised, NoResponse, <<"format_response">>, <<>>)

\* safe_format_response(transport_handler, reply)
safe_format_response(transport, r, fault, error_fault) ==
    IF format_response(transport, r, fault).raised = "none"
    THEN Formatted("none", format_response(transport, r, fault).ret, <<"format_response">>, <<>>)
    ELSE Recovered(format_response(transport, r, fault).raised,
                   safe_format_error(transport, Literal("Error generando respuesta"), 500, error_fault))

Transports == {"api", "twilio"}

\* what a method of the transport raises when it is called, if anything
Faults == {"none", "ValueError", "RuntimeError", "TypeError"}

\* the replies of process() handed to the transport
FormattedReplies ==
    {UserReply(<<"O", "k">>, <<>>, TRUE), UserReply(<<>>, <<>>, TRUE),
     UserReply(DEFAULT_ERROR_MESSAGE, <<>>, FALSE)}

\* the messages and status codes safe_format_error is called with
Errors ==
    {[msg |-> Literal("Solicitud inválida"), status |-> 400],
     [msg |-> Literal("Error procesando solicitud"), status |-> 500],
     [msg |-> Literal("Error interno del servidor"), status |-> 500],
     [msg |-> <<"s", "i", "n", " ", "\"", "b", "o", "d", "y", "\"">>, status |-> 400]}

InitTransport ==
    /\ ttl_minutes = 1
    /\ adapter = LocalStorageAdapter(ttl_minutes).adapter
    /\ ttl = LocalStorageAdapter(ttl_minutes).ttl
    /\ now = 0
    /\ store = [s \in Sessions |-> NoCtx]
    /\ heap = [a \in CtxIds |-> Unallocated]
    /\ nctx = 0
    /\ pc = [t \in Turns |-> "idle"]
    /\ session_id = [t \in Turns |-> NoSession]
    /\ ctx = [t \in Turns |-> NoCtx]
    /\ reply = [t \in Turns |-> [message |-> 0, vehicles |-> <<>>, success |-> FALSE, action |-> "none"]]
    /\ lastOp = Op("__init__", NoSession, NoCtx, TRUE, 0)
    /\ removed = {}
    /\ wiped = {}
    /\ elapsed = {}
    /\ appended = [a \in CtxIds |-> <<>>]
    /\ user_text = <<>>
    /\ decision = NoDecision
    /\ guarded = NoDecision
    /\ catalog = <<>>
    /\ kavak_info = None
    /\ NoCatalogIO
    /\ result = NoDecision
    /\ calls = <<>>
    /\ NotRun

transportVars == <<ttl_minutes, adapter, ttl, now, store, heap, nctx, pc, session_id, ctx, reply,
                   lastOp, ghostVars, user_text, decision, guarded, catalog, kavak_info, ioVars,
                   humanize, steps, returned, loop>>

\* the call as the history keeps it
Formats(call, transport, args, fault, error_fault, f) ==
    /\ result' = [call |-> call, transport |-> transport, args |-> args, fault |-> fault,
                  error_fault |-> error_fault, raised |-> f.raised, response |-> f.ret]
    /\ calls' = f.invoked
    /\ log' = f.log

\* safe_format_response(transport_handler, reply)
SafeFormatResponse ==
    /\ result = NoDecision
    /\ \E transport \in Transports, r \in FormattedReplies, fault \in Faults, error_fault \in Faults :
          Formats("safe_format_response", transport, r, fault, error_fault,
                  safe_format_response(transport, r, fault, error_fault))
    /\ UNCHANGED transportVars

\* safe_format_error(transport_handler, error_msg, status_code)
SafeFormatError ==
    /\ result = NoDecision
    /\ \E transport \in Transports, err \in Errors, error_fault \in Faults :
          Formats("safe_format_error", transport, err, "none", error_fault,
                  safe_format_error(transport, err.msg, err.status, error_fault))
    /\ UNCHANGED transportVars

NextTransport == SafeFormatResponse \/ SafeFormatError

SpecTransport == InitTransport /\ [][NextTransport]_vars

\* a formatting call was made
FormattingDone == result /= NoDecision

\* format_response raised in the call
ResponseFailed ==
    /\ FormattingDone
    /\ result.call = "safe_format_response"
    /\ format_response(result.transport, result.args, result.fault).raised /= "none"

\* the message and status code format_error was called with
ErrorMsg == IF result.call = "safe_format_response" THEN Literal("Error generando respuesta") ELSE result.args.msg
ErrorStatus == IF result.call = "safe_format_response" THEN 500 ELSE result.args.status

\* format_error was called and raised
ErrorFailed ==
    /\ FormattingDone
    /\ result.call = "safe_format_error" \/ ResponseFailed
    /\ format_error(result.transport, ErrorMsg, ErrorStatus, result.error_fault).raised /= "none"

\* C33: formatting never raises and always returns a response: when
\* format_response raises, the response is what the transport's format_error
\* returns for status 500; when format_error raises (too), it is the JSON
\* fallback with the status code asked for and the error message in its body.
C33_FormattingNeverRaises ==
    FormattingDone =>
        /\ result.raised = "none"
        /\ result.response /= NoResponse
        /\ (ResponseFailed /\ ~ErrorFailed) =>
              /\ result.response = format_error(result.transport, Literal("Error generando respuesta"),
                                                500, result.error_fault).ret
              /\ calls = <<"format_response", "format_error">>
        /\ ErrorFailed =>
              /\ result.response.statusCode = ErrorStatus
              /\ result.response.headers = "Content-Type: application/json"
              /\ Contains(result.response.body, ErrorMsg)
              /\ result.response.body[1] = "{\"error\": \""

\* C33 witness: the API transport's format_response raised an exception that is
\* neither ValueError nor RuntimeError, format_error raised too, and the
\* fallback with status 500 was returned
C33_Witness ==
    /\ ResponseFailed /\ ErrorFailed
    /\ result.transport = "api"
    /\ result.fault = "TypeError"
    /\ result.response = create_fallback_response(Literal("Error generando respuesta"), 500)
    /\ Len(log) = 2

\* C34: the first rule that matches wins: a get_financing_options decision
\* without stock id on an empty context whose text holds a marker phrase gets
\* the first rule's clarification (which vehicle to finance, no missing
\* fields), not the marker rule's with missing fields make and model.
C34_FirstRuleWins ==
    (/\ GuardsApplied
     /\ FinancingWithoutStockId
     /\ EmptyContext(heap[1])
     /\ user_text \in MarkerTexts)
        => /\ guarded.action = "clarify"
           /\ guarded.message = AskWhichToFinance
           /\ guarded.missing_information = <<>>
           /\ guarded.message /= AskWhichReference
           /\ MissingOf(guarded) /= {"make", "model"}

\* C34 witness: "quiero ese" with a financing decision without stock id on an
\* empty context was answered by the first rule
C34_Witness ==
    /\ GuardsApplied
    /\ FinancingWithoutStockId
    /\ EmptyContext(heap[1])
    /\ user_text = <<"q", "u", "i", "e", "r", "o", " ", "e", "s", "e">>
    /\ needs_reference(lower(user_text))
    /\ guarded.message = AskWhichToFinance

\* the entries of the store whose age exceeds the TTL
ExpiredEntries == {s \in Sessions : store[s] /= NoCtx /\ Age(store[s]) > ttl}

\* C35: cleanup_expired removes exactly the entries that are expired at the time
\* of the call and returns their number: every entry whose age exceeds the TTL is
\* removed, every live entry stays in the store unchanged, and right after the
\* sweep session_count is the number of live sessions.
C35_SweepExact ==
    [][Called("cleanup_expired") =>
          /\ lastOp'.count = Cardinality(ExpiredEntries)
          /\ \A s \in ExpiredEntries : store'[s] = NoCtx
          /\ \A s \in Sessions : Live(s) => (store'[s] = store[s] /\ heap'[store[s]] = heap[store[s]])
          /\ \A s \in Sessions : store[s] = NoCtx => store'[s] = NoCtx
          /\ session_count' = LiveCount
          /\ session_count' = LiveCount'
      ]_vars

\* C35 witness: a sweep has just removed one expired entry and left a live one, of
\* age exactly the TTL, in the store
C35_Witness ==
    /\ lastOp.op = "cleanup_expired" /\ lastOp.count = 1 /\ lastOp.at = now
    /\ session_count = 1
    /\ \E a \in removed : Age(a) > ttl
    /\ \E s \in Sessions : Live(s) /\ Age(store[s]) = ttl

\* what delete(id) does besides its return value: only the entry of id goes, an
\* exists(id) right after it is false and a second delete(id) right after it
\* returns false
DeleteEffect ==
    /\ Called("delete") =>
          /\ store'[lastOp'.sid] = NoCtx
          /\ \A s \in Sessions \ {lastOp'.sid} : store'[s] = store[s]
          /\ heap' = heap
    /\ (lastOp.op = "delete" /\ Called("exists") /\ lastOp'.sid = lastOp.sid) => ~lastOp'.flag
    /\ (lastOp.op = "delete" /\ Called("delete") /\ lastOp'.sid = lastOp.sid) => ~lastOp'.flag

\* C36 (as claimed): delete(id) returns true exactly in the states where
\* exists(id) called instead would have returned true; it removes only that
\* entry, after it exists(id) is false and a second delete(id) returns false.
C36_DeleteIffExists ==
    [][/\ Called("delete") => lastOp'.flag = exists(Self, lastOp'.sid).ret
       /\ DeleteEffect
      ]_vars

\* C36 (amended): delete(id) returns true exactly when the store holds an entry
\* for id, an expired entry that was not yet evicted included: in every state
\* where exists(id) would have returned true, and in those where the entry of id
\* has expired; it removes only that entry, after it exists(id) is false and a
\* second delete(id) returns false.
C36_DeleteIffStored ==
    [][/\ Called("delete") =>
             /\ lastOp'.flag = (store[lastOp'.sid] /= NoCtx)
             /\ exists(Self, lastOp'.sid).ret => lastOp'.flag
             /\ lastOp'.flag = (exists(Self, lastOp'.sid).ret \/ lastOp'.sid \in ExpiredEntries)
       /\ DeleteEffect
      ]_vars

\* C36 witness: delete has just returned true for an entry that had expired and
\* was still in the store, while another session's entry stays
C36_Witness ==
    /\ lastOp.op = "delete" /\ lastOp.flag /\ lastOp.at = now
    /\ store[lastOp.sid] = NoCtx
    /\ \E a \in removed : heap[a].session_id = lastOp.sid /\ Age(a) > ttl
    /\ \E s \in Sessions : store[s] /= NoCtx

\* C36 witness: a second delete of the same id has just returned false
C36_SecondDelete ==
    /\ lastOp.op = "delete" /\ ~lastOp.flag
    /\ \E a \in removed : heap[a].session_id = lastOp.sid /\ Age(a) <= ttl

\* this step is the commit-memory step of the turn
Committing == steps' = Append(steps, "commit")

\* the handler found at least one vehicle
FoundVehicles ==
    /\ result.raised = "none" /\ result.ret.type = "SearchCarsResult"
    /\ result.ret.results.total_count > 0

\* C37: only the commit of a reply that carries vehicles replaces the last
\* search results, and no step changes the selected vehicle: a turn whose reply
\* has no vehicles (every reply but that of a search that found something, and
\* the reply of a failed turn) leaves both as they were before the turn; every
\* commit sets last_action and appends the assistant message.
C37_CommitKeepsResults ==
    [][/\ \A a \in CtxIds :
             /\ heap'[a].selected_vehicle = heap[a].selected_vehicle
             /\ heap'[a].last_search_results /= heap[a].last_search_results =>
                    (Committing /\ a = ctx[1] /\ reply[1].vehicles /= <<>>)
       /\ Committing =>
             /\ ~FoundVehicles => reply[1].vehicles = <<>>
             /\ reply[1].vehicles /= <<>> =>
                    heap'[ctx[1]].last_search_results = to_selected_vehicles(reply[1].vehicles)
             /\ heap'[ctx[1]].last_action = guarded.action
             /\ heap'[ctx[1]].messages =
                    Append(heap[ctx[1]].messages, Message("assistant", reply[1].message))
       /\ (returned = NoReply /\ returned' /= NoReply) =>
             (returned'.vehicles /= <<>> => (pc[1] = "commit" /\ returned' = reply[1]))
      ]_vars

\* C37 witness: a details turn on a context with results and a selection has
\* returned: the results and the selection are those of before the turn, the
\* last action and the last message are the turn's
C37_Witness ==
    /\ pc[1] = "returned" /\ guarded.action = "get_car_details" /\ returned.success
    /\ returned.vehicles = <<>>
    /\ heap[ctx[1]].last_search_results = SelectedContext.last_search_results
    /\ heap[ctx[1]].selected_vehicle = 2
    /\ heap[ctx[1]].last_action = "get_car_details"
    /\ heap[ctx[1]].messages[Len(heap[ctx[1]].messages)] = Message("assistant", returned.message)

\* C37 witness: an empty search, and an error reply, were committed over earlier results
C37_EmptySearch ==
    /\ pc[1] = "returned" /\ guarded.action = "search_cars"
    /\ returned.vehicles = <<>>
    /\ heap[ctx[1]].last_search_results = PriorContext.last_search_results
    /\ heap[ctx[1]].last_action = "search_cars"

\* the number of assistant messages of a context
AssistantMessages(c) == Cardinality({i \in 1..Len(c.messages) : c.messages[i].role = "assistant"})

\* the turn failed in a step after start: the store holds the turn's context, its
\* last message is the user message of the turn, nothing was committed and no
\* persist task exists
FailedTurnContext ==
    /\ store["s1"] = ctx[1]
    /\ heap[ctx[1]].messages /= <<>>
    /\ heap[ctx[1]].messages[Len(heap[ctx[1]].messages)] = Message("user", user_text)
    /\ \A i \in 1..Len(steps) : steps[i] \notin {"commit", "persist"}
    /\ loop.persist = "none"
    /\ \A i \in 1..Len(loop.ready) : loop.ready[i] /= "persist"

\* C38: a turn that fails in a step after start (the decision, the router or
\* the enrichment raises) leaves in the store the context with the user message
\* that start appended as its last message; no step of such a turn adds an
\* assistant message or changes last_action or last_search_results, and no
\* persist task is started.
C38_FailedTurnKeepsContext ==
    [][/\ Failed' => FailedTurnContext'
       /\ ~Committing =>
             \A a \in CtxIds :
                /\ AssistantMessages(heap'[a]) = AssistantMessages(heap[a])
                /\ heap'[a].last_action = heap[a].last_action
                /\ heap'[a].last_search_results = heap[a].last_search_results
       /\ Failed => (heap' = heap /\ store' = store /\ loop'.persist = "none")
      ]_vars

\* C38 witness: the enrichment of a search that found vehicles raised, on a
\* context of an earlier search turn: the user message is the last one, the
\* earlier results and last action stand, and the loop has no persist task
C38_Witness ==
    /\ FailedIn("enrich", "except Exception")
    /\ reply[1].vehicles /= <<>>
    /\ heap[ctx[1]].messages = Append(PriorContext.messages, Message("user", user_text))
    /\ heap[ctx[1]].last_search_results = PriorContext.last_search_results
    /\ heap[ctx[1]].last_action = PriorContext.last_action
    /\ loop.persist = "none" /\ ~loop.running

\* C38 witness: the decision and the router raised
C38_DecideOrRouteFailed ==
    /\ FailedIn("decide", "except ValueError") \/ FailedIn("route", "except Exception")
    /\ FailedTurnContext

\* get_financing_options decisions that carry no stock id
FinancingDecisions ==
    {[AgentDecision("get_financing_options") EXCEPT !.stock_id = k] : k \in {None, <<>>}}

\* user texts of a financing turn, without and with a marker phrase
FinancingTexts ==
    {<<"f", "i", "n", "a", "n", "c", "i", "a", "r">>, <<"q", "u", "i", "e", "r", "o", " ", "e", "s", "e">>}

\* this step is ConversationService.select_vehicle, called outside process()
Selecting == \E sid \in Sessions, k \in StockIds : Becomes(select_vehicle(Self, sid, k).S)

\* this step is a step of process() of some turn
TurnStep == pc' /= pc

\* C39: no step of a turn changes the selected vehicle of any context, only
\* select_vehicle does; so in every turn that reaches the guards with a context
\* whose selected vehicle is none, whatever turns came before on the session,
\* a get_financing_options decision without a stock id is overridden to clarify.
C39_TurnsNeverSelect ==
    [][/\ \A a \in CtxIds :
             heap'[a].selected_vehicle /= heap[a].selected_vehicle => (Selecting /\ ~TurnStep)
       /\ \A t \in Turns :
             (pc[t] = "decide" /\ heap[ctx[t]].selected_vehicle = NoVehicle) =>
                 \A text \in FinancingTexts, d \in FinancingDecisions :
                     apply_clarify_guards(text, d, heap[ctx[t]]).ret.action = "clarify"
      ]_vars

\* C39 witness: the second turn on a session is at its decision, the first one
\* committed a search with vehicles and has persisted; no vehicle is selected
C39_Witness ==
    /\ pc[1] = "done" /\ pc[2] = "decide"
    /\ session_id[1] = session_id[2] /\ ctx[1] = ctx[2]
    /\ heap[ctx[2]].last_search_results /= <<>>
    /\ heap[ctx[2]].last_action = "search_cars"
    /\ heap[ctx[2]].selected_vehicle = NoVehicle

\* the turn runs on a context with a selected vehicle and the backend decided
\* get_financing_options without a stock id
FinancingOnSelection ==
    /\ ctx[1] /= NoCtx /\ heap[ctx[1]].selected_vehicle /= NoVehicle
    /\ FinancingWithoutStockId

\* the turn is past the given steps
Past(positions) == pc[1] \in positions

\* C40: a get_financing_options decision without a stock id on a context with a
\* selected vehicle passes the guards unchanged and its handler rejects it: the
\* result is the error variant, no financing result with a price is made, the
\* reply is the fixed apology with success false, no enrichment is attempted
\* and that reply is the one the turn returns.
C40_FinancingNeedsStockId ==
    FinancingOnSelection =>
        /\ GuardsApplied => guarded = decision
        /\ pc[1] \notin {"enrich", "failed"}
        /\ Past({"route", "render", "commit", "returned"}) =>
              /\ result = Returned(ErrorResult(
                               Literal("Se requiere el ID del auto para consultar financiamiento."), decision))
              /\ calls = <<"get_agent_decision", "handle_get_financing_options">>
        /\ Past({"render", "commit", "returned"}) =>
              reply[1] = UserReply(DEFAULT_ERROR_MESSAGE, <<>>, FALSE)
        /\ TurnOver => returned = UserReply(DEFAULT_ERROR_MESSAGE, <<>>, FALSE)

\* C40 witness: such a turn, with humanize on and vehicle 2 selected and in the
\* catalog, has returned the apology
C40_Witness ==
    /\ FinancingOnSelection /\ TurnOver /\ humanize
    /\ heap[ctx[1]].selected_vehicle = 2
    /\ ~get_vehicle_details(<<"2">>).raised
    /\ guarded.action = "get_financing_options"
    /\ returned.message = DEFAULT_ERROR_MESSAGE /\ ~returned.success
    /\ heap[ctx[1]].last_action = "get_financing_options"

====
